---- MODULE Spec2Model ----
(***************************************************************************)
(* Model of the IV monitor's analysis and alerting-decision engine:        *)
(* IVMonitor (src/src/monitor.py), StatisticalAnalyzer                     *)
(* (src/src/statistics.py) and ATMDatabase (src/src/atm_db.py).            *)
(*                                                                         *)
(* Units.  A mark IV is a decimal fraction in the feed (0.462); the model  *)
(* keeps it as an integer number of 1e-4 (0.462 -> 4620).  The code's      *)
(* "* 100" to percentage points is kept as "* 100", so a percentage is an  *)
(* integer number of 1e-4 pp (46.2 pp -> 462000).  Deltas are integers in  *)
(* 1e-2 (0.65 -> 65).  Time is in minutes.                                 *)
(***************************************************************************)
EXTENDS Integers, Sequences, FiniteSets, TLC

VARIABLES statistics_mode,   \* config: "simple" or "statistical"
          last_alerted_iv,   \* dict expiry -> last alerted IV (pp)
          initial_alert_iv,  \* dict expiry -> first alerted IV (pp)
          spot_prices,       \* dict symbol -> spot price
          perpetual_mark_prices, \* dict symbol -> perpetual mark price
          atm_db,            \* rows of table atm_iv_history
          now,               \* datetime.utcnow(), minutes
          marks,             \* the exchange's mark snapshot (relevant_marks)
          alerts,            \* alerts handed to the notifier by the latest check
          log,               \* log lines written by the latest check
          db_ops,            \* store calls issued by the latest check, in order
          call               \* a direct call of an analyzer function, or NoCall

config == <<statistics_mode>>
tracker == <<last_alerted_iv, initial_alert_iv>>
prices == <<spot_prices, perpetual_mark_prices>>
observed == <<alerts, log, db_ops>>
vars == <<statistics_mode, last_alerted_iv, initial_alert_iv, spot_prices,
          perpetual_mark_prices, atm_db, now, marks, alerts, log, db_ops,
          call>>

(***************************************************************************)
(* Configuration (monitoring / filtering sections)                         *)
(***************************************************************************)
iv_threshold == 450000
min_open_interest == 10000
iv_increase_threshold == 10000
delta_min == 5
delta_max == 65
RESET_DROP == 20000

(***************************************************************************)
(* Bounds                                                                  *)
(***************************************************************************)
MaxMarks == 2

(***************************************************************************)
(* Python dict helpers                                                     *)
(***************************************************************************)
DictGet(d, k, dflt) == IF k \in DOMAIN d THEN d[k] ELSE dflt

DictSet(d, k, v) == [x \in (DOMAIN d) \cup {k} |-> IF x = k THEN v ELSE d[x]]

EmptyDict == [x \in {} |-> 0]

Abs(x) == IF x < 0 THEN -x ELSE x

(***************************************************************************)
(* Quotes.  A symbol is kept as the list of its dash-separated fields.     *)
(***************************************************************************)
Mark(sym, iv, oi, d) ==
    [symbol |-> sym, markIV |-> iv, sumOpenInterest |-> oi, delta |-> d]

E0 == "251120"
E1 == "251226"
E2 == "260130"

Expiries == {E1, E2}

SimpleAlphabet ==
    { Mark(<<"BTC", E1, "90000", "C">>,  4400, 20000,  30),
      Mark(<<"BTC", E1, "90000", "P">>,  4500, 20000, -30),
      Mark(<<"BTC", E1, "95000", "P">>,  4520, 20000, -30),
      Mark(<<"BTC", E1, "100000", "C">>, 4620, 20000,   5),
      Mark(<<"BTC", E1, "100000", "P">>, 4690, 20000, -65),
      Mark(<<"BTC", E1, "105000", "C">>, 4750, 20000,  30),
      Mark(<<"BTC", E1, "110000", "C">>, 6000, 10000,  30),
      Mark(<<"BTC", E1, "115000", "C">>, 6000, 20000,  66),
      Mark(<<"BTC", E1, "85000", "P">>,  6000, 20000,  -4),
      Mark(<<"BTC", E2, "100000", "C">>, 4750, 20000,  30),
      Mark(<<"BTC", E2, "C">>,           4750, 20000,  30) }

(***************************************************************************)
(* IVMonitor._group_by_expiry: dict expiry -> marks, kept as the list of   *)
(* (expiry, marks) pairs in key insertion order.                           *)
(***************************************************************************)
RECURSIVE GroupAppend_Prepend(_, _, _)
GroupAppend_Prepend(groups, expiry_date, mark) ==
    IF groups = <<>> THEN << <<expiry_date, <<mark>> >> >>
    ELSE IF Head(groups)[1] = expiry_date
         THEN << <<expiry_date, <<mark>> \o Head(groups)[2]>> >> \o Tail(groups)
         ELSE <<Head(groups)>> \o GroupAppend_Prepend(Tail(groups), expiry_date, mark)

RECURSIVE GroupAppend(_, _, _)
GroupAppend(groups, expiry_date, mark) ==
    IF groups = <<>> THEN << <<expiry_date, <<mark>> >> >>
    ELSE IF Head(groups)[1] = expiry_date
         THEN << <<expiry_date, Append(Head(groups)[2], mark)>> >> \o Tail(groups)
         ELSE <<Head(groups)>> \o GroupAppend(Tail(groups), expiry_date, mark)

RECURSIVE GroupLoop(_, _)
GroupLoop(groups, ms) ==
    IF ms = <<>> THEN groups
    ELSE LET mark == Head(ms)
             parts == mark.symbol
         IN  IF Len(parts) # 4
             THEN GroupLoop(groups, Tail(ms))
             ELSE GroupLoop(GroupAppend(groups, parts[2], mark), Tail(ms))

GroupByExpiry(ms) == GroupLoop(<<>>, ms)

(***************************************************************************)
(* IVMonitor._check_simple_threshold                                       *)
(***************************************************************************)
MarkIVPercent(mark) == mark.markIV * 100

Qualifies_AtThreshold(mark) ==
    /\ MarkIVPercent(mark) >= iv_threshold
    /\ mark.sumOpenInterest > min_open_interest
    /\ delta_min <= Abs(mark.delta)
    /\ Abs(mark.delta) <= delta_max

\* the filter of lines 650-652
Qualifies(mark) ==
    /\ MarkIVPercent(mark) > iv_threshold
    /\ mark.sumOpenInterest > min_open_interest
    /\ delta_min <= Abs(mark.delta)
    /\ Abs(mark.delta) <= delta_max

RECURSIVE TriggeredStrikes(_)
TriggeredStrikes(ms) ==
    IF ms = <<>> THEN <<>>
    ELSE (IF Qualifies(Head(ms))
          THEN << [symbol |-> Head(ms).symbol,
                   markIV |-> MarkIVPercent(Head(ms)),
                   openInterest |-> Head(ms).sumOpenInterest,
                   delta |-> Head(ms).delta] >>
          ELSE <<>>) \o TriggeredStrikes(Tail(ms))

MaxMarkIV_First(triggered) == triggered[1].markIV

\* max(s['markIV'] for s in triggered_strikes), line 668
RECURSIVE MaxMarkIV(_)
MaxMarkIV(triggered) ==
    IF Len(triggered) = 1 THEN triggered[1].markIV
    ELSE LET rest == MaxMarkIV(Tail(triggered))
         IN  IF triggered[1].markIV >= rest THEN triggered[1].markIV ELSE rest

\* reset detection, line 675
ResetCondition(initial_iv, max_iv) ==
    initial_iv > 0 /\ max_iv < initial_iv - RESET_DROP

AlertCondition_Strict(last_iv, max_iv) ==
    last_iv = 0 \/ max_iv > last_iv + iv_increase_threshold

AlertCondition_AnyRise(last_iv, max_iv) ==
    last_iv = 0 \/ max_iv >= last_iv

\* alert condition, line 687
AlertCondition(last_iv, max_iv) ==
    last_iv = 0 \/ max_iv >= last_iv + iv_increase_threshold

LogLine(expiry_date, event, max_iv, from_iv) ==
    [expiry_date |-> expiry_date, event |-> event, max_iv |-> max_iv, from_iv |-> from_iv]

NoStrikes_Reset(st, expiry_date) ==
    [st EXCEPT !.last = DictSet(@, expiry_date, 0),
               !.initial = DictSet(@, expiry_date, 0),
               !.log = Append(@, LogLine(expiry_date, "no_strikes", 0, 0))]

\* lines 663-665: nothing exceeded the threshold, skip the expiry
NoStrikes(st, expiry_date) ==
    [st EXCEPT !.log = Append(@, LogLine(expiry_date, "no_strikes", 0, 0))]

ResetTracking_LastOnly(st, expiry_date, max_iv, initial_iv) ==
    [st EXCEPT !.last = DictSet(@, expiry_date, 0),
               !.log = Append(@, LogLine(expiry_date, "reset", max_iv, initial_iv))]

\* a reset that clears the tracking of every expiry
ResetTracking_AllExpiries(st, expiry_date, max_iv, initial_iv) ==
    [st EXCEPT !.last = [x \in (DOMAIN @) \cup {expiry_date} |-> 0],
               !.initial = [x \in (DOMAIN @) \cup {expiry_date} |-> 0],
               !.log = Append(@, LogLine(expiry_date, "reset", max_iv, initial_iv))]

\* lines 676-682: reset tracking, no alert
ResetTracking(st, expiry_date, max_iv, initial_iv) ==
    [st EXCEPT !.last = DictSet(@, expiry_date, 0),
               !.initial = DictSet(@, expiry_date, 0),
               !.log = Append(@, LogLine(expiry_date, "reset", max_iv, initial_iv))]

\* DiscordNotifier.send_simple_atm_alert: the call as the monitor makes it,
\* and whether the webhook took the message; a failure is logged inside the
\* notifier and nothing is raised (discord_notifier.py:408, 480-481)
SendSimpleAtmAlert(notifier_fails, expiry_date, triggered_strikes, previous_iv) ==
    [kind |-> "simple",
     expiry_date |-> expiry_date,
     triggered_strikes |-> triggered_strikes,
     previous_iv |-> previous_iv,
     delivered |-> ~notifier_fails]

\* the first alert not remembered as the initial one
SendAndTrack_InitialForgotten(st, expiry_date, triggered_strikes, max_iv, last_iv) ==
    [st EXCEPT
       !.last = DictSet(@, expiry_date, max_iv),
       !.alerts = Append(@, SendSimpleAtmAlert(expiry_date \in st.failing, expiry_date,
                                               triggered_strikes, last_iv)),
       !.log = Append(@, LogLine(expiry_date,
                                 IF last_iv = 0 THEN "exceed" ELSE "increased",
                                 max_iv, last_iv))]

\* a later alert that leaves the last alerted IV where it was
SendAndTrack_LastKept(st, expiry_date, triggered_strikes, max_iv, last_iv) ==
    [st EXCEPT
       !.last = IF last_iv = 0 THEN DictSet(@, expiry_date, max_iv) ELSE @,
       !.initial = IF last_iv = 0 THEN DictSet(@, expiry_date, max_iv) ELSE @,
       !.alerts = Append(@, SendSimpleAtmAlert(expiry_date \in st.failing, expiry_date,
                                               triggered_strikes, last_iv)),
       !.log = Append(@, LogLine(expiry_date,
                                 IF last_iv = 0 THEN "exceed" ELSE "increased",
                                 max_iv, last_iv))]

\* the tracker updated only when the notification went out
SendAndTrack_TrackIfDelivered(st, expiry_date, triggered_strikes, max_iv, last_iv) ==
    [st EXCEPT
       !.last = IF expiry_date \in st.failing THEN @
                ELSE DictSet(@, expiry_date, max_iv),
       !.initial = IF last_iv = 0 /\ expiry_date \notin st.failing
                   THEN DictSet(@, expiry_date, max_iv) ELSE @,
       !.alerts = Append(@, SendSimpleAtmAlert(expiry_date \in st.failing, expiry_date,
                                               triggered_strikes, last_iv)),
       !.log = Append(@, LogLine(expiry_date,
                                 IF last_iv = 0 THEN "exceed" ELSE "increased",
                                 max_iv, last_iv))]

\* lines 688-711: log, send the alert, update tracking
SendAndTrack(st, expiry_date, triggered_strikes, max_iv, last_iv) ==
    [st EXCEPT
       !.last = DictSet(@, expiry_date, max_iv),
       !.initial = IF last_iv = 0 THEN DictSet(@, expiry_date, max_iv) ELSE @,
       !.alerts = Append(@, SendSimpleAtmAlert(expiry_date \in st.failing, expiry_date,
                                               triggered_strikes, last_iv)),
       !.log = Append(@, LogLine(expiry_date,
                                 IF last_iv = 0 THEN "exceed" ELSE "increased",
                                 max_iv, last_iv))]

\* lines 713-716
NoAlert(st, expiry_date, max_iv, last_iv) ==
    [st EXCEPT !.log = Append(@, LogLine(expiry_date, "no_alert", max_iv, last_iv))]

\* one iteration of the loop over expiry_groups; st = [last, initial, alerts,
\* log] and the expiries whose notification fails in this check
SimpleExpiry(st, expiry_date, ms) ==
    LET triggered_strikes == TriggeredStrikes(ms)
    IN  IF triggered_strikes = <<>> THEN NoStrikes(st, expiry_date)
        ELSE
        LET max_iv == MaxMarkIV(triggered_strikes)
            last_iv == DictGet(st.last, expiry_date, 0)
            initial_iv == DictGet(st.initial, expiry_date, 0)
        IN  IF ResetCondition(initial_iv, max_iv)
            THEN ResetTracking(st, expiry_date, max_iv, initial_iv)
            ELSE IF AlertCondition(last_iv, max_iv)
            THEN SendAndTrack(st, expiry_date, triggered_strikes, max_iv, last_iv)
            ELSE NoAlert(st, expiry_date, max_iv, last_iv)

RECURSIVE SimpleLoop(_, _)
SimpleLoop(st, groups) ==
    IF groups = <<>> THEN st
    ELSE SimpleLoop(SimpleExpiry(st, Head(groups)[1], Head(groups)[2]), Tail(groups))

\* the webhook takes every message of a check or none of them
NotifierOutages == { {}, Expiries }

\* _check_all_symbols_iv in simple mode: group the snapshot, check every expiry
CheckSimpleThreshold ==
    /\ statistics_mode = "simple"
    /\ \E failing \in NotifierOutages :
       LET st == SimpleLoop([last |-> last_alerted_iv,
                             initial |-> initial_alert_iv,
                             alerts |-> <<>>,
                             log |-> <<>>,
                             failing |-> failing],
                            GroupByExpiry(marks))
       IN  /\ last_alerted_iv' = st.last
           /\ initial_alert_iv' = st.initial
           /\ alerts' = st.alerts
           /\ log' = st.log
    /\ db_ops' = <<>>
    /\ UNCHANGED <<config, prices, atm_db, now, marks, call>>

(***************************************************************************)
(* Optional values (Python None)                                           *)
(***************************************************************************)
None == [some |-> FALSE]
Some(v) == [some |-> TRUE, v |-> v]

Max(a, b) == IF a >= b THEN a ELSE b

\* floor division, as Python's timedelta.days
FloorDiv(a, b) == IF a >= 0 THEN a \div b ELSE -((-a + b - 1) \div b)

(***************************************************************************)
(* StatisticalAnalyzer (src/src/statistics.py)                             *)
(***************************************************************************)
\* float(): the strings that are numbers
FloatTable ==
    [ x \in {"85000", "90000", "95000", "100000", "105000", "110000", "115000"} |->
        CASE x = "85000"  -> 85000
          [] x = "90000"  -> 90000
          [] x = "95000"  -> 95000
          [] x = "100000" -> 100000
          [] x = "105000" -> 105000
          [] x = "110000" -> 110000
          [] x = "115000" -> 115000 ]

\* _get_strike_from_symbol: None on a wrong field count or a non-numeric strike
GetStrikeFromSymbol(symbol) ==
    IF Len(symbol) = 4 /\ symbol[3] \in DOMAIN FloatTable
    THEN Some(FloatTable[symbol[3]])
    ELSE None

\* datetime(2000 + YY, MM, DD) of a YYMMDD string, in minutes on the model's clock
ExpiryMidnight ==
    [ x \in {E0, E1, E2} |->
        IF x = E0 THEN 0 - 6 * 1440 ELSE IF x = E1 THEN 30 * 1440 ELSE 65 * 1440 ]

\* _get_days_to_expiry: None when the field is no YYMMDD date, else at least 1
GetDaysToExpiry(symbol, utcnow) ==
    IF Len(symbol) = 4 /\ symbol[2] \in DOMAIN ExpiryMidnight
    THEN Some(Max(1, FloorDiv(ExpiryMidnight[symbol[2]] - utcnow, 1440)))
    ELSE None

\* strikes_data: (strike, iv) of the marks with iv > 0 and a resolvable strike
RECURSIVE StrikesData(_)
StrikesData(ms) ==
    IF ms = <<>> THEN <<>>
    ELSE LET strike == GetStrikeFromSymbol(Head(ms).symbol)
             iv == Head(ms).markIV
         IN  (IF iv > 0 /\ strike.some THEN << <<strike.v, iv>> >> ELSE <<>>)
             \o StrikesData(Tail(ms))

\* list.sort(key=strike): stable
RECURSIVE InsertByStrike(_, _)
InsertByStrike(sorted, pair) ==
    IF sorted = <<>> THEN <<pair>>
    ELSE IF Head(sorted)[1] <= pair[1]
         THEN <<Head(sorted)>> \o InsertByStrike(Tail(sorted), pair)
         ELSE <<pair>> \o sorted

\* the pairs left in feed order
SortByStrike_Unsorted(sd) == sd

RECURSIVE SortByStrike(_)
SortByStrike(sd) ==
    IF sd = <<>> THEN <<>>
    ELSE InsertByStrike(SortByStrike(SubSeq(sd, 1, Len(sd) - 1)), sd[Len(sd)])

\* the bracket scan of lines 240-248; br = [lower, upper]
RECURSIVE BracketScan(_, _, _)
BracketScan(sd, spot_price, br) ==
    IF sd = <<>> THEN br
    ELSE IF Head(sd)[1] <= spot_price
         THEN BracketScan(Tail(sd), spot_price, [br EXCEPT !.lower = Some(Head(sd))])
         ELSE [br EXCEPT !.upper = Some(Head(sd))]

\* min(marks, key=|strike - spot|): the first mark at the least distance
RECURSIVE ClosestMark(_, _)
ClosestMark(ms, spot_price) ==
    IF Len(ms) = 1 THEN ms[1]
    ELSE LET rest == ClosestMark(Tail(ms), spot_price)
             d1 == Abs(GetStrikeFromSymbol(ms[1].symbol).v - spot_price)
             d2 == Abs(GetStrikeFromSymbol(rest.symbol).v - spot_price)
         IN  IF d1 <= d2 THEN ms[1] ELSE rest

Returned(iv, strike) == [raised |-> FALSE, iv |-> iv, strike |-> strike]
Raised == [raised |-> TRUE]

\* the weights taken from the wrong ends
Interpolate_WeightsSwapped(lower, upper, spot_price) ==
    LET total_range == upper[1] - lower[1]
    IN  ((spot_price - lower[1]) * lower[2] + (upper[1] - spot_price) * upper[2])
        \div total_range

\* lines 258-264; lower and upper are (strike, iv)
Interpolate(lower, upper, spot_price) ==
    LET total_range == upper[1] - lower[1]
    IN  ((upper[1] - spot_price) * lower[2] + (spot_price - lower[1]) * upper[2])
        \div total_range

(***************************************************************************)
(* Python floats: IEEE 754 binary64, round to nearest, ties to even.  A    *)
(* natural number is a sequence of digits in base 2^15, lowest first, so   *)
(* that a 53-bit significand and the product of two fit the arithmetic.    *)
(***************************************************************************)
LimbBits == 15
Limb == 2^LimbBits
\* bits of a float's significand (sys.float_info.mant_dig)
Precision == 53

RECURSIVE Trim(_)
Trim(a) == IF a # <<>> /\ a[Len(a)] = 0 THEN Trim(SubSeq(a, 1, Len(a) - 1)) ELSE a

RECURSIVE Digits(_)
Digits(n) == IF n = 0 THEN <<>> ELSE <<n % Limb>> \o Digits(n \div Limb)

RECURSIVE AddCarry(_, _, _)
AddCarry(a, b, c) ==
    IF a = <<>> /\ b = <<>> THEN (IF c = 0 THEN <<>> ELSE <<c>>)
    ELSE LET x == (IF a = <<>> THEN 0 ELSE Head(a)) + (IF b = <<>> THEN 0 ELSE Head(b)) + c
         IN  <<x % Limb>> \o AddCarry(IF a = <<>> THEN <<>> ELSE Tail(a),
                                      IF b = <<>> THEN <<>> ELSE Tail(b),
                                      x \div Limb)

BigAdd(a, b) == AddCarry(a, b, 0)

RECURSIVE MulDigit(_, _, _)
MulDigit(a, d, c) ==
    IF a = <<>> THEN (IF c = 0 THEN <<>> ELSE <<c>>)
    ELSE LET x == Head(a) * d + c
         IN  <<x % Limb>> \o MulDigit(Tail(a), d, x \div Limb)

RECURSIVE BigMul(_, _)
BigMul(a, b) ==
    IF b = <<>> THEN <<>>
    ELSE LET rest == BigMul(a, Tail(b))
         IN  BigAdd(Trim(MulDigit(a, Head(b), 0)),
                    IF rest = <<>> THEN <<>> ELSE <<0>> \o rest)

\* a * 2^k
ShiftLeft(a, k) ==
    IF a = <<>> THEN <<>>
    ELSE [i \in 1..(k \div LimbBits) |-> 0] \o MulDigit(a, 2^(k % LimbBits), 0)

\* quotient and remainder of a by a one-digit c
RECURSIVE DivSmall(_, _)
DivSmall(a, c) ==
    IF a = <<>> THEN [q |-> <<>>, r |-> 0]
    ELSE LET hi == DivSmall(Tail(a), c)
             x == hi.r * Limb + Head(a)
         IN  [q |-> <<x \div c>> \o hi.q, r |-> x % c]

\* floor(a / 2^k), and whether a bit was lost
ShiftRight(a, k) ==
    LET drop == k \div LimbBits
        kept == IF drop >= Len(a) THEN <<>> ELSE SubSeq(a, drop + 1, Len(a))
        lost == \E i \in 1..drop : i <= Len(a) /\ a[i] # 0
        d == DivSmall(kept, 2^(k % LimbBits))
    IN  [q |-> Trim(d.q), sticky |-> lost \/ d.r # 0]

RECURSIVE BitsOf(_)
BitsOf(d) == IF d = 0 THEN 0 ELSE 1 + BitsOf(d \div 2)

BitLength(a) == IF a = <<>> THEN 0 ELSE LimbBits * (Len(a) - 1) + BitsOf(a[Len(a)])

Odd(a) == a # <<>> /\ a[1] % 2 = 1

RECURSIVE BigLess(_, _)
BigLess(a, b) ==
    IF Len(a) # Len(b) THEN Len(a) < Len(b)
    ELSE IF a = <<>> THEN FALSE
    ELSE IF a[Len(a)] # b[Len(b)] THEN a[Len(a)] < b[Len(b)]
    ELSE BigLess(SubSeq(a, 1, Len(a) - 1), SubSeq(b, 1, Len(b) - 1))

\* a float is 0 or m * 2^e with 2^52 <= m < 2^53
Zero == [m |-> <<>>, e |-> 0]

\* the float nearest to n * 2^e (plus a fraction of the last bit if sticky)
Round(n, e, sticky) ==
    LET len == BitLength(n)
    IN  IF n = <<>> THEN Zero
        ELSE IF len <= Precision
        THEN [m |-> ShiftLeft(n, Precision - len), e |-> e - (Precision - len)]
        ELSE LET k == len - Precision
                 t == ShiftRight(n, k - 1)
                 q == ShiftRight(t.q, 1).q
                 up == Odd(t.q) /\ (t.sticky \/ sticky \/ Odd(q))
                 m == IF up THEN BigAdd(q, <<1>>) ELSE q
             IN  IF BitLength(m) > Precision
                 THEN [m |-> ShiftRight(m, 1).q, e |-> e + k + 1]
                 ELSE [m |-> m, e |-> e + k]

\* a / c for whole numbers a >= 0 and 0 < c < 2^15
FloatDiv(a, c) ==
    LET d == DivSmall(ShiftLeft(Digits(a), 5 * LimbBits), c)
    IN  Round(Trim(d.q), 0 - 5 * LimbBits, d.r # 0)

FloatMul(x, y) ==
    IF x = Zero \/ y = Zero THEN Zero
    ELSE Round(BigMul(x.m, y.m), x.e + y.e, FALSE)

FloatAdd(x, y) ==
    IF x = Zero THEN y
    ELSE IF y = Zero THEN x
    ELSE LET e == IF x.e < y.e THEN x.e ELSE y.e
         IN  Round(BigAdd(ShiftLeft(x.m, x.e - e), ShiftLeft(y.m, y.e - e)), e, FALSE)

FloatLess(x, y) ==
    IF x = Zero THEN y # Zero
    ELSE IF y = Zero THEN FALSE
    ELSE IF x.e # y.e THEN x.e < y.e
    ELSE BigLess(x.m, y.m)

\* the float next above x
FloatAfter(x) == Round(BigAdd(x.m, <<1>>), x.e, FALSE)

\* a - b for a >= b
RECURSIVE SubBorrow(_, _, _)
SubBorrow(a, b, c) ==
    IF a = <<>> THEN <<>>
    ELSE LET x == Head(a) - (IF b = <<>> THEN 0 ELSE Head(b)) - c
         IN  <<x % Limb>> \o SubBorrow(Tail(a), IF b = <<>> THEN <<>> ELSE Tail(b),
                                       IF x < 0 THEN 1 ELSE 0)

BigSub(a, b) == Trim(SubBorrow(a, b, 0))

\* float(n) of a natural number
FloatOfInt(n) == Round(Digits(n), 0, FALSE)

\* abs(x - y)
FloatAbsDiff(x, y) ==
    IF x = Zero THEN y
    ELSE IF y = Zero THEN x
    ELSE LET e == IF x.e < y.e THEN x.e ELSE y.e
             a == ShiftLeft(x.m, x.e - e)
             b == ShiftLeft(y.m, y.e - e)
         IN  IF BigLess(a, b) THEN Round(BigSub(b, a), e, FALSE)
             ELSE Round(BigSub(a, b), e, FALSE)

\* k more bits of the quotient of r by d, for r < d
RECURSIVE QuotientBits(_, _, _, _)
QuotientBits(r, d, k, q) ==
    IF k = 0 THEN [q |-> q, r |-> r]
    ELSE LET r2 == BigAdd(r, r)
             q2 == BigAdd(q, q)
         IN  IF BigLess(r2, d) /\ Len(q2) >= 0
             THEN QuotientBits(r2, d, k - 1, q2)
             ELSE QuotientBits(BigSub(r2, d), d, k - 1, BigAdd(q2, <<1>>))

\* x / y of two floats, y not 0: the leading bit of the quotient of the
\* significands, then Precision + 3 more bits, a quarter at a time
FloatQuot(x, y) ==
    IF x = Zero THEN Zero
    ELSE LET ge == ~BigLess(x.m, y.m)
             step == (Precision + 3) \div 4
             d1 == QuotientBits(IF ge THEN BigSub(x.m, y.m) ELSE x.m, y.m, step,
                                IF ge THEN <<1>> ELSE <<>>)
             d2 == QuotientBits(d1.r, y.m, step, d1.q)
             d3 == QuotientBits(d2.r, y.m, step, d2.q)
             d4 == QuotientBits(d3.r, y.m, step, d3.q)
         IN  Round(d4.q, x.e - y.e - 4 * step, d4.r # <<>>)

\* float(mark.get('markIV', 0)) of a decimal in 1e-4: the float nearest to it
FloatOfDecimal(iv) == FloatDiv(iv, 10000)

\* lines 258-264 as the floats compute them; lower and upper are (strike, iv)
InterpolateFloat(lower, upper, spot_price) ==
    LET total_range == upper[1] - lower[1]
        weight_lower == FloatDiv(upper[1] - spot_price, total_range)
        weight_upper == FloatDiv(spot_price - lower[1], total_range)
    IN  FloatAdd(FloatMul(weight_lower, FloatOfDecimal(lower[2])),
                 FloatMul(weight_upper, FloatOfDecimal(upper[2])))

\* find_synthetic_atm_iv.  The interpolated IV is a rational; the quotes and
\* spot prices of the model are chosen so that it is a whole number of 1e-4.
FindSyntheticAtmIv(marks_for_expiry, spot_price) ==
    LET strikes_data == StrikesData(marks_for_expiry)
    IN  IF Len(strikes_data) < 2
        THEN IF Len(strikes_data) = 1
             THEN Returned(strikes_data[1][2], strikes_data[1][1])
             ELSE IF marks_for_expiry = <<>> THEN Returned(0, spot_price)
             ELSE IF \E i \in 1..Len(marks_for_expiry) :
                        ~GetStrikeFromSymbol(marks_for_expiry[i].symbol).some
             THEN Raised    \* abs(None - spot_price): TypeError
             ELSE Returned(ClosestMark(marks_for_expiry, spot_price).markIV, spot_price)
        ELSE LET sorted == SortByStrike(strikes_data)
                 br == BracketScan(sorted, spot_price, [lower |-> None, upper |-> None])
             IN  IF ~br.lower.some THEN Returned(sorted[1][2], sorted[1][1])
                 ELSE IF ~br.upper.some
                 THEN Returned(sorted[Len(sorted)][2], sorted[Len(sorted)][1])
                 ELSE Returned(Interpolate(br.lower.v, br.upper.v, spot_price),
                               spot_price)

\* the synthetic_atm_iv find_synthetic_atm_iv returns, as the float it is
FindSyntheticAtmIvFloat(marks_for_expiry, spot_price) ==
    LET strikes_data == StrikesData(marks_for_expiry)
        sorted == SortByStrike(strikes_data)
        br == BracketScan(sorted, spot_price, [lower |-> None, upper |-> None])
    IN  IF Len(strikes_data) >= 2 /\ br.lower.some /\ br.upper.some
        THEN InterpolateFloat(br.lower.v, br.upper.v, spot_price)
        ELSE FloatOfDecimal(FindSyntheticAtmIv(marks_for_expiry, spot_price).iv)

(***************************************************************************)
(* 25-delta skew in the spot and the forward system.  A delta is the float *)
(* of its decimal (0.26 -> float("0.26")); funding rates are in 1e-4 per 8 *)
(* hours, times to expiry in years.                                        *)
(***************************************************************************)
\* math.exp on the arguments the funding rates and times of the model give;
\* the argument (0 - funding_rate_annual) * time_to_expiry_years in 1e-4
MathExp ==
    [ x \in {-1095, 0, 1095} |->
        CASE x = -1095 -> [m |-> <<3103, 24059, 14687, 229>>, e |-> -53]
          [] x = 0     -> [m |-> <<0, 0, 0, 128>>, e |-> -52]
          [] x = 1095  -> [m |-> <<1059, 5125, 26613, 142>>, e |-> -52] ]

\* calculate_forward_price: F = S * e^((0 - f) * T)
CalculateForwardPrice(perp_mark_price, funding_rate, time_to_expiry_years) ==
    LET funding_rate_annual == funding_rate * 3 * 365
    IN  FloatMul(FloatOfInt(perp_mark_price),
                 MathExp[(0 - funding_rate_annual) * time_to_expiry_years])

\* the ratio S / F left as S
CalculateForwardDelta_Unscaled(spot_delta, perp_mark_price, forward_price) ==
    FloatMul(spot_delta, FloatOfInt(perp_mark_price))

\* calculate_forward_delta: spot_delta * (S / F)
CalculateForwardDelta(spot_delta, perp_mark_price, forward_price) ==
    FloatMul(spot_delta, FloatQuot(FloatOfInt(perp_mark_price), forward_price))

\* symbol.endswith('-C'), symbol.endswith('-P')
EndsWith(symbol, type) == Len(symbol) >= 2 /\ symbol[Len(symbol)] = type

\* [m for m in marks_for_expiry if m['symbol'].endswith(...)]
RECURSIVE SideOf(_, _)
SideOf(ms, type) ==
    IF ms = <<>> THEN <<>>
    ELSE (IF EndsWith(Head(ms).symbol, type) THEN <<Head(ms)>> ELSE <<>>)
         \o SideOf(Tail(ms), type)

\* abs(float(m.get('delta', 0)))
AbsDelta(mark) == FloatDiv(Abs(mark.delta), 100)

Quarter == FloatDiv(1, 4)

\* the last of the keys that are least
RECURSIVE FirstLeast_LastWins(_)
FirstLeast_LastWins(keys) ==
    IF Len(keys) = 1 THEN 1
    ELSE LET rest == 1 + FirstLeast_LastWins(Tail(keys))
         IN  IF FloatLess(keys[1], keys[rest]) THEN 1 ELSE rest

\* min(..., key=...): the position of the first of the keys that are least
RECURSIVE FirstLeast(_)
FirstLeast(keys) ==
    IF Len(keys) = 1 THEN 1
    ELSE LET rest == 1 + FirstLeast(Tail(keys))
         IN  IF FloatLess(keys[rest], keys[1]) THEN rest ELSE 1

\* min(side, key=...) if side else None
Nearest(side, keys) == IF side = <<>> THEN None ELSE Some(side[FirstLeast(keys)])

\* float(x.get('markIV', 0)) if x else 0.0, as a decimal in 1e-4
SelectedIv(selected) == IF selected.some THEN selected.v.markIV ELSE 0

\* _get_strike_from_symbol(x['symbol']) if x else 0
SelectedStrike(selected) ==
    IF selected.some THEN GetStrikeFromSymbol(selected.v.symbol) ELSE Some(0)

\* lines 430 and 436: abs(abs(delta) - 0.25) of every quote of a side
SpotDistances(side) ==
    [i \in 1..Len(side) |-> FloatAbsDiff(AbsDelta(side[i]), Quarter)]

\* lines 447-457: the forward delta of every quote of a side
ForwardDeltas(side, perp_mark_price, forward_price) ==
    [i \in 1..Len(side) |->
        CalculateForwardDelta(AbsDelta(side[i]), perp_mark_price, forward_price)]

\* lines 462 and 468: abs(forward_delta - 0.25) of every quote of a side
ForwardDistances(side_forward) ==
    [i \in DOMAIN side_forward |-> FloatAbsDiff(side_forward[i], Quarter)]

\* lines 440-443 and 472-500: the IVs, skews and strikes of the selected quotes
DualSystemDict(spot_call_25d, spot_put_25d, forward_call_25d, forward_put_25d, forward_price, calls_forward, puts_forward) ==
    LET spot_skew == (SelectedIv(spot_call_25d) - SelectedIv(spot_put_25d)) * 100
        forward_skew == (SelectedIv(forward_call_25d) - SelectedIv(forward_put_25d)) * 100
    IN  [spot_call_25d_iv |-> SelectedIv(spot_call_25d) * 100,
         spot_put_25d_iv |-> SelectedIv(spot_put_25d) * 100,
         spot_skew |-> spot_skew,
         forward_call_25d_iv |-> SelectedIv(forward_call_25d) * 100,
         forward_put_25d_iv |-> SelectedIv(forward_put_25d) * 100,
         forward_skew |-> forward_skew,
         ghost_skew |-> spot_skew - forward_skew,
         forward_price |-> forward_price,
         spot_call_strike |-> SelectedStrike(spot_call_25d),
         spot_put_strike |-> SelectedStrike(spot_put_25d),
         forward_call_strike |-> SelectedStrike(forward_call_25d),
         forward_put_strike |-> SelectedStrike(forward_put_25d),
         spot_call_25d |-> spot_call_25d,
         spot_put_25d |-> spot_put_25d,
         forward_call_25d |-> forward_call_25d,
         forward_put_25d |-> forward_put_25d,
         calls_forward |-> calls_forward,
         puts_forward |-> puts_forward]

\* lines 428-438 and 460-470: the nearest quote of each side, by spot and by
\* forward delta
SelectDualSystem(calls, puts, forward_price, calls_forward, puts_forward) ==
    DualSystemDict(Nearest(calls, SpotDistances(calls)),
                   Nearest(puts, SpotDistances(puts)),
                   Nearest(calls, ForwardDistances(calls_forward)),
                   Nearest(puts, ForwardDistances(puts_forward)),
                   forward_price, calls_forward, puts_forward)

\* lines 447-457: both sides converted with the forward price
DualSystemAtForward(calls, puts, perp_mark_price, forward_price) ==
    SelectDualSystem(calls, puts, forward_price,
                     ForwardDeltas(calls, perp_mark_price, forward_price),
                     ForwardDeltas(puts, perp_mark_price, forward_price))

\* find_25delta_ivs_dual_system: the returned dict, and with it the quotes
\* selected and the forward deltas the selection used
Find25DeltaIvsDualSystem(marks_for_expiry, perp_mark_price, funding_rate, time_to_expiry_years) ==
    DualSystemAtForward(SideOf(marks_for_expiry, "C"), SideOf(marks_for_expiry, "P"),
                        perp_mark_price,
                        CalculateForwardPrice(perp_mark_price, funding_rate,
                                              time_to_expiry_years))

\* mark.get(key, 0)
MarkGet(mark, key) == IF key \in DOMAIN mark THEN mark[key] ELSE 0

\* a quote that carries its greeks
WithGreeks(mark, theta, vega) ==
    [symbol |-> mark.symbol, markIV |-> mark.markIV,
     sumOpenInterest |-> mark.sumOpenInterest, delta |-> mark.delta,
     theta |-> theta, vega |-> vega]

\* a score is a ratio num / den with den > 0
Ratio(num, den) == [num |-> num, den |-> den]
RatioAtLeast(a, b) == a.num * b.den >= b.num * a.den

\* lines 573-576: (theta / vega) * iv when vega > 0, else iv
OpportunityScore(theta, vega, iv) ==
    IF vega > 0 THEN Ratio(theta * iv, vega) ELSE Ratio(iv, 1)

\* lines 546-588: the delta band, the parsable expiry, the score
RECURSIVE SellableLoop(_, _, _, _)
SellableLoop(all_marks, dmin, dmax, utcnow) ==
    IF all_marks = <<>> THEN <<>>
    ELSE LET mark == Head(all_marks)
             delta == Abs(mark.delta)
             iv == MarkIVPercent(mark)
             theta == Abs(MarkGet(mark, "theta"))
             vega == MarkGet(mark, "vega")
             days_to_expiry == GetDaysToExpiry(mark.symbol, utcnow)
             rest == SellableLoop(Tail(all_marks), dmin, dmax, utcnow)
         IN  IF delta < dmin \/ delta > dmax THEN rest
             ELSE IF ~days_to_expiry.some \/ days_to_expiry.v <= 0 THEN rest
             ELSE << [symbol |-> mark.symbol,
                      iv |-> iv,
                      delta |-> delta,
                      theta |-> theta,
                      vega |-> vega,
                      days_to_expiry |-> days_to_expiry.v,
                      opportunity_score |-> OpportunityScore(theta, vega, iv)] >>
                  \o rest

\* the lowest score first
RECURSIVE InsertByScore_Ascending(_, _)
InsertByScore_Ascending(sorted, x) ==
    IF sorted = <<>> THEN <<x>>
    ELSE IF RatioAtLeast(x.opportunity_score, Head(sorted).opportunity_score)
         THEN <<Head(sorted)>> \o InsertByScore_Ascending(Tail(sorted), x)
         ELSE <<x>> \o sorted

\* sort(key=opportunity_score, reverse=True): stable, best first
RECURSIVE InsertByScore(_, _)
InsertByScore(sorted, x) ==
    IF sorted = <<>> THEN <<x>>
    ELSE IF RatioAtLeast(Head(sorted).opportunity_score, x.opportunity_score)
         THEN <<Head(sorted)>> \o InsertByScore(Tail(sorted), x)
         ELSE <<x>> \o sorted

RECURSIVE SortByScore(_)
SortByScore(xs) ==
    IF xs = <<>> THEN <<>>
    ELSE InsertByScore(SortByScore(SubSeq(xs, 1, Len(xs) - 1)), xs[Len(xs)])

\* get_smart_sellable_strikes
GetSmartSellableStrikes(all_marks, dmin, dmax, utcnow) ==
    SortByScore(SellableLoop(all_marks, dmin, dmax, utcnow))

\* the analyzer object: thresholds of StatisticalAnalyzer.__init__
\* (z_score_threshold in 1e-1, min_history in minutes)
Analyzer(z, samples, history_minutes) ==
    [z_score_threshold |-> z, min_samples |-> samples, min_history |-> history_minutes]

ZScale == 10

RECURSIVE SumIv(_)
SumIv(h) == IF h = <<>> THEN 0 ELSE Head(h).synthetic_atm_iv + SumIv(Tail(h))

RECURSIVE SumSqDev(_, _, _)
SumSqDev(h, n, total) ==
    IF h = <<>> THEN 0
    ELSE (n * Head(h).synthetic_atm_iv - total) * (n * Head(h).synthetic_atm_iv - total)
         + SumSqDev(Tail(h), n, total)

\* A timestamp is a datetime or its ISO text; both order by the instant (at,
\* in minutes), only datetimes subtract.
Datetime(t) == [type |-> "datetime", at |-> t]
IsoText(t) == [type |-> "str", at |-> t]

\* min(timestamps), max(timestamps)
RECURSIVE MinTs(_)
MinTs(h) == IF Len(h) = 1 THEN h[1].timestamp
            ELSE IF h[1].timestamp.at <= MinTs(Tail(h)).at
                 THEN h[1].timestamp ELSE MinTs(Tail(h))

RECURSIVE MaxTs(_)
MaxTs(h) == IF Len(h) = 1 THEN h[1].timestamp
            ELSE IF h[1].timestamp.at >= MaxTs(Tail(h)).at
                 THEN h[1].timestamp ELSE MaxTs(Tail(h))

\* newest - oldest is defined on datetimes; on str it is a TypeError
Subtractable(newest, oldest) ==
    newest.type = "datetime" /\ oldest.type = "datetime"

Result(v) == [raised |-> FALSE, value |-> v]

\* std_dev > 1e-6, with std_dev^2 = q / (n^2 (n-1)) in units of 1e-8
StdAboveEps(q, n) == q > (n * n * (n - 1)) \div 10000

\* z_score >= z_score_threshold
ZAbove_NonStrict(dev, q, n, z) ==
    IF z > 0
    THEN dev > 0 /\ dev * dev * ZScale * ZScale * (n - 1) >= z * z * q
    ELSE dev >= 0 \/ dev * dev * ZScale * ZScale * (n - 1) <= z * z * q

\* z_score > z_score_threshold, with z = dev * sqrt(n-1) / sqrt(q)
ZAbove(dev, q, n, z) ==
    IF z >= 0
    THEN dev > 0 /\ dev * dev * ZScale * ZScale * (n - 1) > z * z * q
    ELSE dev >= 0 \/ dev * dev * ZScale * ZScale * (n - 1) < z * z * q

\* lines 131-142: the history spans less than min_history_hours
TimeSpanGuard(self, iv_history) ==
    iv_history # <<>> /\ MaxTs(iv_history).at - MinTs(iv_history).at < self.min_history

\* lines 123-128: fewer rows than min_samples
SampleGuard(self, iv_history) == Len(iv_history) < self.min_samples

\* np.min, np.max of the history's IVs
RECURSIVE MinIv(_)
MinIv(h) == IF Len(h) = 1 THEN h[1].synthetic_atm_iv
            ELSE IF h[1].synthetic_atm_iv <= MinIv(Tail(h))
                 THEN h[1].synthetic_atm_iv ELSE MinIv(Tail(h))

RECURSIVE MaxIv(_)
MaxIv(h) == IF Len(h) = 1 THEN h[1].synthetic_atm_iv
            ELSE IF h[1].synthetic_atm_iv >= MaxIv(Tail(h))
                 THEN h[1].synthetic_atm_iv ELSE MaxIv(Tail(h))

\* the float 1e-6
Millionth == [m |-> <<28045, 16747, 7134, 134>>, e |-> -72]

\* 100.0 and 50.0
Hundred == [m |-> <<0, 0, 0, 200>>, e |-> -46]
Fifty == [m |-> <<0, 0, 0, 200>>, e |-> -47]

\* lines 160-161 and 165: ((current_iv - daily_low) / iv_range) * 100 when the
\* range is above 1e-6, else 50.0; max(0.0, ...) of a negative percentage is 0.0
RawPercent(daily_low, iv_range, current) ==
    IF FloatLess(Millionth, iv_range)
    THEN IF FloatLess(current, daily_low) THEN Zero
         ELSE FloatMul(FloatQuot(FloatAbsDiff(current, daily_low), iv_range), Hundred)
    ELSE Fifty

\* line 158: iv_range = daily_high - daily_low
RawPercentInRange(daily_low, daily_high, current) ==
    RawPercent(daily_low, FloatAbsDiff(daily_high, daily_low), current)

\* line 163: min(100.0, ...)
ClampPercent(iv_percentile) ==
    IF FloatLess(Hundred, iv_percentile) THEN Hundred ELSE iv_percentile

\* the percentage left as computed
IvPercentile_Unclamped(iv_history, current_iv) ==
    RawPercentInRange(FloatOfDecimal(MinIv(iv_history)),
                      FloatOfDecimal(MaxIv(iv_history)),
                      FloatOfDecimal(current_iv))

\* lines 156-165: where the current IV lies in the history's range, as the
\* floats compute it
IvPercentile(iv_history, current_iv) ==
    ClampPercent(RawPercentInRange(FloatOfDecimal(MinIv(iv_history)),
                                   FloatOfDecimal(MaxIv(iv_history)),
                                   FloatOfDecimal(current_iv)))

\* lines 144-188; dev = n * (current - mean), q = sum of (n*x - sum)^2
IVStatistics(self, iv_history, current_iv) ==
    LET n == Len(iv_history)
        total == SumIv(iv_history)
        q == SumSqDev(iv_history, n, total)
        dev == IF StdAboveEps(q, n) THEN n * current_iv - total ELSE 0
    IN  [current_iv |-> current_iv * 100,
         sample_count |-> n,
         z_dev |-> dev,
         iv_percentile |-> IvPercentile(iv_history, current_iv),
         is_abnormal |-> IF StdAboveEps(q, n)
                         THEN ZAbove(dev, q, n, self.z_score_threshold)
                         ELSE 0 > self.z_score_threshold]

\* calculate_statistics: a result, None, or the TypeError of line 135
CalculateStatistics(self, iv_history, current_iv) ==
    IF SampleGuard(self, iv_history) THEN Result(None)
    ELSE IF iv_history # <<>>
            /\ ~Subtractable(MaxTs(iv_history), MinTs(iv_history)) THEN Raised
    ELSE IF TimeSpanGuard(self, iv_history) THEN Result(None)
    ELSE Result(Some(IVStatistics(self, iv_history, current_iv)))

(***************************************************************************)
(* ATMDatabase (src/src/atm_db.py); a row keeps the columns the analyzer   *)
(* reads.  The connection is opened without detect_types (line 44): a      *)
(* datetime parameter is bound as its ISO text, and a DATETIME column is   *)
(* read back as that text.                                                 *)
(***************************************************************************)
\* sqlite3's binding of a datetime parameter
AdaptDatetime(dt) == IsoText(dt.at)

\* an insert that stores nothing
InsertAtmRecord_NotStored(db, expiry_date, synthetic_atm_iv, timestamp) == db

\* insert_atm_record: upsert on (expiry_date, timestamp)
InsertAtmRecord(db, expiry_date, synthetic_atm_iv, timestamp) ==
    { r \in db : ~(r.expiry_date = expiry_date
                   /\ r.timestamp = AdaptDatetime(timestamp)) }
    \cup { [expiry_date |-> expiry_date, timestamp |-> AdaptDatetime(timestamp),
            synthetic_atm_iv |-> synthetic_atm_iv] }

RECURSIVE OrderByTimestamp(_)
OrderByTimestamp(rows) ==
    IF rows = {} THEN <<>>
    ELSE LET first == CHOOSE r \in rows : \A q \in rows : r.timestamp.at <= q.timestamp.at
         IN  <<first>> \o OrderByTimestamp(rows \ {first})

\* get_atm_history(expiry_date, hours): rows not older than the cutoff, oldest first
GetAtmHistory(db, expiry_date, minutes, utcnow) ==
    LET cutoff_time == AdaptDatetime(Datetime(utcnow.at - minutes))
    IN  OrderByTimestamp({ r \in db : r.expiry_date = expiry_date
                                      /\ r.timestamp.at >= cutoff_time.at })

(***************************************************************************)
(* Statistics configuration and IVMonitor._check_statistical_abnormality   *)
(***************************************************************************)
z_score_threshold == 10
min_samples == 3
min_history_minutes == 240
HISTORY_MINUTES == 1440

analyzer == Analyzer(z_score_threshold, min_samples, min_history_minutes)

StatLine(expiry_date, event) == [expiry_date |-> expiry_date, event |-> event]

\* what the store does with the calls of one check: it serves them, or one
\* kind of call fails (insert_atm_record and get_atm_history log and re-raise,
\* atm_db.py:169-171 and 241-243)
StoreFaults == {"none", "insert_atm_record", "get_atm_history"}

\* _check_atm_abnormality; st = [db, alerts, log, db_ops, last, initial, fault].
\* An exception of get_atm_history or calculate_statistics leaves the method
\* and is caught, and logged, by the loop of _check_statistical_abnormality
\* (lines 616-620).  db_ops records a served call as <<name, expiry>> and a
\* call that raised as <<name, expiry, "raised">>.
\* lines 786-834: the decision on the statistics, the ranker and the alert
AlertIfAbnormal(st1, expiry_date, stats, sellable_strikes) ==
    IF stats.raised
    THEN [st1 EXCEPT !.log = Append(@, StatLine(expiry_date, "error"))]
    ELSE IF ~stats.value.some
    THEN [st1 EXCEPT !.log = Append(@, StatLine(expiry_date, "no_stats"))]
    ELSE IF ~stats.value.v.is_abnormal
    THEN [st1 EXCEPT !.log = Append(@, StatLine(expiry_date, "iv_normal"))]
    ELSE IF sellable_strikes = <<>>
    THEN [st1 EXCEPT !.log = Append(@, StatLine(expiry_date, "no_sellable"))]
    ELSE [st1 EXCEPT
            !.log = Append(@, StatLine(expiry_date, "abnormal_detected")),
            !.alerts = Append(@, [kind |-> "abnormal",
                                  expiry_date |-> expiry_date,
                                  stats |-> stats.value.v,
                                  sellable_strikes |-> sellable_strikes])]

\* lines 778-834: the sample guard, then the statistics of the history
CheckAgainstHistory(st1, expiry_date, synthetic_atm_iv, all_marks, utcnow, atm_history) ==
    IF Len(atm_history) < analyzer.min_samples
    THEN [st1 EXCEPT !.log = Append(@, StatLine(expiry_date, "insufficient_samples"))]
    ELSE AlertIfAbnormal(st1, expiry_date,
                         CalculateStatistics(analyzer, atm_history, synthetic_atm_iv),
                         GetSmartSellableStrikes(all_marks, delta_min, delta_max,
                                                 utcnow.at))

CheckAtmAbnormality(st, expiry_date, synthetic_atm_iv, all_marks, utcnow) ==
    IF st.fault = "get_atm_history"
    THEN [st EXCEPT !.db_ops = Append(@, <<"get_atm_history", expiry_date, "raised">>),
                    !.log = Append(@, StatLine(expiry_date, "error"))]
    ELSE CheckAgainstHistory(
             [st EXCEPT !.db_ops = Append(@, <<"get_atm_history", expiry_date>>)],
             expiry_date, synthetic_atm_iv, all_marks, utcnow,
             GetAtmHistory(st.db, expiry_date, HISTORY_MINUTES, utcnow))

NoIvData_Negative(found) == found.iv < 0

\* line 570: a synthetic ATM IV of 0 stands for "no valid IV data"
NoIvData(found) == found.iv = 0

\* one iteration of the loop of lines 562-621; the skew columns of the record
\* are not read back by the analysis and are left out of the row.  The skew
\* computation shows as its log line (statistics.py:481-484).
StatExpiry(st, expiry_date, ms, spot_price, utcnow) ==
    LET found == FindSyntheticAtmIv(ms, spot_price)
    IN  IF found.raised
        THEN [st EXCEPT !.log = Append(@, StatLine(expiry_date, "error"))]
        ELSE IF NoIvData(found)
        THEN st
        ELSE
        LET days_to_expiry == GetDaysToExpiry(ms[1].symbol, utcnow.at)
        IN  IF ~days_to_expiry.some \/ days_to_expiry.v <= 0
            THEN [st EXCEPT !.log = Append(@, StatLine(expiry_date, "invalid_expiry"))]
            ELSE
            LET st1 == [st EXCEPT !.log = Append(@, StatLine(expiry_date, "dual_skew"))]
            IN  IF st.fault = "insert_atm_record"
                THEN [st1 EXCEPT
                        !.db_ops = Append(@, <<"insert_atm_record", expiry_date, "raised">>),
                        !.log = Append(@, StatLine(expiry_date, "error"))]
                ELSE CheckAtmAbnormality(
                        [st1 EXCEPT !.db = InsertAtmRecord(@, expiry_date, found.iv, utcnow),
                                    !.db_ops = Append(@, <<"insert_atm_record", expiry_date>>)],
                        expiry_date, found.iv, ms, utcnow)

\* the try around the loop instead of inside it: the first error ends the check
RECURSIVE StatLoop_StopAtError(_, _, _, _)
StatLoop_StopAtError(st, groups, spot_price, utcnow) ==
    IF groups = <<>> THEN st
    ELSE LET st1 == StatExpiry(st, Head(groups)[1], Head(groups)[2], spot_price, utcnow)
         IN  IF st1.log # <<>> /\ st1.log[Len(st1.log)].event = "error"
             THEN st1
             ELSE StatLoop_StopAtError(st1, Tail(groups), spot_price, utcnow)

\* lines 562-621: each expiry in its own try/except
RECURSIVE StatLoop(_, _, _, _)
StatLoop(st, groups, spot_price, utcnow) ==
    IF groups = <<>> THEN st
    ELSE StatLoop(StatExpiry(st, Head(groups)[1], Head(groups)[2], spot_price, utcnow),
                  Tail(groups), spot_price, utcnow)

\* _check_statistical_abnormality
StatisticalAbnormality(st, groups, utcnow) ==
    LET spot_price == DictGet(spot_prices, "BTCUSDT", 0)
        perp_mark_price == DictGet(perpetual_mark_prices, "BTCUSDT", 0)
    IN  IF spot_price = 0 \/ perp_mark_price = 0
        THEN [st EXCEPT !.log = Append(@, StatLine("", "no_price_data"))]
        ELSE StatLoop(st, groups, spot_price, utcnow)

\* _check_all_symbols_iv in statistical mode
\* the monitor after the check: the store, the alerts sent and the tracker
StatisticalChecked(st) ==
    /\ atm_db' = st.db
    /\ alerts' = st.alerts
    /\ log' = st.log
    /\ db_ops' = st.db_ops
    /\ last_alerted_iv' = st.last
    /\ initial_alert_iv' = st.initial

CheckStatisticalAbnormality ==
    /\ statistics_mode = "statistical"
    /\ \E fault \in StoreFaults :
          StatisticalChecked(
              StatisticalAbnormality([db |-> atm_db,
                                      alerts |-> <<>>,
                                      log |-> <<>>,
                                      db_ops |-> <<>>,
                                      last |-> last_alerted_iv,
                                      initial |-> initial_alert_iv,
                                      fault |-> fault],
                                     GroupByExpiry(marks), Datetime(now)))
    /\ UNCHANGED <<config, prices, now, marks, call>>

(***************************************************************************)
(* IVMonitor._update_prices: one fetch for BTC, stored on success (a failed *)
(* fetch stores nothing).  The loop calls it between two checks, before    *)
(* the next snapshot is fetched.                                           *)
(***************************************************************************)
UpdatePrices(spot_price, perp_mark_price) ==
    /\ marks = <<>>
    /\ spot_prices' = DictSet(spot_prices, "BTCUSDT", spot_price)
    /\ perpetual_mark_prices' = DictSet(perpetual_mark_prices, "BTCUSDT", perp_mark_price)
    /\ UNCHANGED <<config, tracker, atm_db, now, marks, observed, call>>

(***************************************************************************)
(* Environment: the exchange's next mark snapshot, the clock               *)
(***************************************************************************)
E3 == "27DEC24"

StatisticalAlphabet ==
    { Mark(<<"BTC", E1, "95000", "C">>,  5000, 20000,  30),
      Mark(<<"BTC", E1, "100000", "P">>, 5200, 20000, -30),
      Mark(<<"BTC", E1, "100000", "C">>, 5200, 20000,  80),
      Mark(<<"BTC", E2, "95000", "C">>,     0, 20000,  30),
      Mark(<<"BTC", E2, "ATM", "C">>,    5000, 20000,  30),
      Mark(<<"BTC", E3, "95000", "C">>,  5000, 20000,  30),
      Mark(<<"BTC", E1, "C">>,           5000, 20000,  30) }

MarkAlphabet ==
    IF statistics_mode = "simple" THEN SimpleAlphabet ELSE StatisticalAlphabet

PriceQuotes == { <<97500, 98000>>, <<0, 98000>>, <<97500, 0>> }

\* a store left by an earlier run: two rows, 23h20 and 10 minutes old
SeededStore ==
    { [expiry_date |-> E1, timestamp |-> IsoText(-1400), synthetic_atm_iv |-> 5000],
      [expiry_date |-> E1, timestamp |-> IsoText(-10), synthetic_atm_iv |-> 5000] }

MaxTicks == 1
TickMinutes == 2 * 60

\* the monitor is started at midnight UTC, on the day the quotes are dated
\* for or on the day the nearer expiry falls due
ExpiryDay == ExpiryMidnight[E1]
StartTimes == {0, ExpiryDay}

SnapshotBegins ==
    /\ marks' = <<>>
    /\ alerts' = <<>>
    /\ log' = <<>>
    /\ db_ops' = <<>>
    /\ UNCHANGED <<config, tracker, prices, atm_db, now, call>>

QuoteArrives(m) ==
    /\ Len(marks) < MaxMarks
    /\ marks' = Append(marks, m)
    /\ alerts' = <<>>
    /\ log' = <<>>
    /\ db_ops' = <<>>
    /\ UNCHANGED <<config, tracker, prices, atm_db, now, call>>

\* the sleep between two checks; only the statistical path reads the clock
\* (atm_db.py:126 and 195, statistics.py:612)
Tick ==
    /\ statistics_mode = "statistical"
    /\ marks = <<>>
    /\ \E start \in StartTimes : now >= start /\ now < start + MaxTicks * TickMinutes
    /\ now' = now + TickMinutes
    /\ UNCHANGED <<config, tracker, prices, atm_db, marks, observed, call>>

(***************************************************************************)
(* Specification                                                           *)
(***************************************************************************)
NoCall == [fn |-> "none"]

Init ==
    /\ call = NoCall
    /\ statistics_mode \in {"simple", "statistical"}
    /\ last_alerted_iv = EmptyDict
    /\ initial_alert_iv = EmptyDict
    /\ spot_prices = EmptyDict
    /\ perpetual_mark_prices = EmptyDict
    /\ atm_db \in IF statistics_mode = "simple" THEN {{}} ELSE {{}, SeededStore}
    /\ now = 0
    /\ marks = <<>>
    /\ alerts = <<>>
    /\ log = <<>>
    /\ db_ops = <<>>

Next ==
    \/ SnapshotBegins
    \/ \E m \in MarkAlphabet : QuoteArrives(m)
    \/ Tick
    \/ \E p \in PriceQuotes : UpdatePrices(p[1], p[2])
    \/ CheckSimpleThreshold
    \/ CheckStatisticalAbnormality

Spec == Init /\ [][Next]_vars

\* the statistical monitor started on the nearer expiry's day, while the
\* exchange still lists that expiry's contracts
InitExpiryDay ==
    /\ call = NoCall
    /\ statistics_mode = "statistical"
    /\ last_alerted_iv = EmptyDict
    /\ initial_alert_iv = EmptyDict
    /\ spot_prices = EmptyDict
    /\ perpetual_mark_prices = EmptyDict
    /\ atm_db = {}
    /\ now = ExpiryDay
    /\ marks = <<>>
    /\ alerts = <<>>
    /\ log = <<>>
    /\ db_ops = <<>>

NextExpiryDay ==
    \/ SnapshotBegins
    \/ \E m \in MarkAlphabet : QuoteArrives(m)
    \/ Tick
    \/ \E p \in PriceQuotes : UpdatePrices(p[1], p[2])
    \/ CheckStatisticalAbnormality

SpecExpiryDay == InitExpiryDay /\ [][NextExpiryDay]_vars

(***************************************************************************)
(* The analyzer's functions and the monitor's _group_by_expiry and         *)
(* _filter_atm_symbols called directly.  The initial state draws the       *)
(* arguments of one call; the step applies the function.                   *)
(***************************************************************************)
MaxHistory == 3
MaxQuotes == 3

Pending == [raised |-> FALSE, pending |-> TRUE]

SeqsUpTo(S, n) == UNION { [1..k -> S] : k \in 0..n }

\* the quotes of one snapshot: no quote twice
DistinctSeqsUpTo(S, n) ==
    { q \in SeqsUpTo(S, n) : \A i, j \in 1..Len(q) : q[i] = q[j] => i = j }

\* rows as get_atm_history returns them (text timestamps), or as a caller
\* holding datetime objects passes them; one row every `step` minutes
HistoryOf(ivs, step, type) ==
    [ i \in 1..Len(ivs) |->
        [expiry_date |-> E1,
         timestamp |-> [type |-> type, at |-> 0 - (Len(ivs) - i) * step],
         synthetic_atm_iv |-> ivs[i]] ]

HistoryIvs == {4900, 5000, 5100}
CurrentIvs == {4900, 5000, 5100, 5200}
Thresholds == {-10, 0, 10, 20}

Histories ==
    { HistoryOf(ivs, step, type) :
        ivs \in SeqsUpTo(HistoryIvs, MaxHistory), step \in {10, TickMinutes},
        type \in {Datetime(0).type, IsoText(0).type} }

CalculateStatisticsCalls ==
    { [fn |-> "calculate_statistics",
       self |-> Analyzer(z, min_samples, min_history_minutes),
       iv_history |-> h, current_iv |-> c, result |-> Pending] :
      z \in Thresholds, h \in Histories, c \in CurrentIvs }

\* one expiry's quotes: two listed strikes with two quotes each, a quote
\* without IV and a quote whose strike field is not a number
ExpiryQuotes ==
    { Mark(<<"BTC", E1, "95000", "C">>, 5000, 20000, 30),
      Mark(<<"BTC", E1, "95000", "P">>, 5400, 20000, -30),
      Mark(<<"BTC", E1, "100000", "C">>, 5400, 20000, 30),
      Mark(<<"BTC", E1, "100000", "P">>, 5200, 20000, -30),
      Mark(<<"BTC", E1, "90000", "C">>, 0, 20000, 30),
      Mark(<<"BTC", E1, "ATM", "C">>, 5000, 20000, 30) }

SpotPrices == {90000, 95000, 95200, 97400, 97500, 100000, 105000}

FindSyntheticAtmIvCalls ==
    { [fn |-> "find_synthetic_atm_iv",
       marks_for_expiry |-> ms, spot_price |-> p,
       result |-> Pending, iv_float |-> Pending] :
      ms \in SeqsUpTo(ExpiryQuotes, MaxQuotes), p \in SpotPrices }

\* one expiry's calls and puts for the skew: deltas on both sides of 0.25,
\* two calls at the same distance from it, and a call without a strike field
SkewQuotes ==
    { Mark(<<"BTC", E1, "95000", "C">>, 5000, 20000, 26),
      Mark(<<"BTC", E1, "100000", "C">>, 5400, 20000, 22),
      Mark(<<"BTC", E1, "105000", "C">>, 5200, 20000, 24),
      Mark(<<"BTC", E1, "C">>, 5100, 20000, 28),
      Mark(<<"BTC", E1, "95000", "P">>, 5200, 20000, -15),
      Mark(<<"BTC", E1, "90000", "P">>, 5600, 20000, -35) }

PerpPrices == {98000}
FundingRates == {-1, 0, 1}
YearsToExpiry == {0, 1}

Find25DeltaIvsDualSystemCalls ==
    { [fn |-> "find_25delta_ivs_dual_system",
       marks_for_expiry |-> ms, perp_mark_price |-> p,
       funding_rate |-> f, time_to_expiry_years |-> t, result |-> Pending] :
      ms \in DistinctSeqsUpTo(SkewQuotes, MaxQuotes), p \in PerpPrices,
      f \in FundingRates, t \in YearsToExpiry }

\* quotes for the ranker: deltas on and beside the bounds of the band, greeks
\* with and without a positive vega, an expiry that has passed, an expiry
\* that is no YYMMDD date and an identifier of three fields
RankerQuotes ==
    { WithGreeks(Mark(<<"BTC", E1, "95000", "C">>, 5000, 20000, 5), -10, 2),
      WithGreeks(Mark(<<"BTC", E1, "100000", "P">>, 5200, 20000, -65), -20, 1),
      WithGreeks(Mark(<<"BTC", E1, "100000", "C">>, 5000, 20000, 30), -10, -1),
      Mark(<<"BTC", E1, "105000", "C">>, 5400, 20000, 30),
      Mark(<<"BTC", E1, "90000", "P">>, 5000, 20000, -4),
      Mark(<<"BTC", E1, "110000", "C">>, 6000, 20000, 66),
      Mark(<<"BTC", E0, "95000", "C">>, 5600, 20000, 30),
      Mark(<<"BTC", E3, "95000", "C">>, 5000, 20000, 30),
      Mark(<<"BTC", E2, "C">>, 5000, 20000, 30) }

GetSmartSellableStrikesCalls ==
    { [fn |-> "get_smart_sellable_strikes",
       all_marks |-> ms, delta_min |-> delta_min, delta_max |-> delta_max,
       result |-> Pending] :
      ms \in SeqsUpTo(RankerQuotes, MaxQuotes) }

CallGetSmartSellableStrikes ==
    /\ call.fn = "get_smart_sellable_strikes"
    /\ call.result = Pending
    /\ call' = [call EXCEPT !.result =
                    Result(GetSmartSellableStrikes(call.all_marks, call.delta_min,
                                                   call.delta_max, now))]
    /\ UNCHANGED <<config, tracker, prices, atm_db, now, marks, observed>>

(***************************************************************************)
(* IVMonitor._filter_atm_symbols, with min_days_to_expiry and              *)
(* max_days_to_expiry left unset (monitor.py:94-95)                        *)
(***************************************************************************)
\* lines 340-371: the (strike, symbol) pairs of the symbols that match the
\* pattern, grouped by expiry
RECURSIVE AtmGroupLoop(_, _, _, _, _)
AtmGroupLoop(expiry_groups, all_symbols, underlying, expiry, option_type) ==
    IF all_symbols = <<>> THEN expiry_groups
    ELSE LET sym_parts == Head(all_symbols)
             rest == Tail(all_symbols)
         IN  IF Len(sym_parts) # 4
             THEN AtmGroupLoop(expiry_groups, rest, underlying, expiry, option_type)
             ELSE IF sym_parts[1] # underlying \/ sym_parts[4] # option_type
             THEN AtmGroupLoop(expiry_groups, rest, underlying, expiry, option_type)
             ELSE IF expiry # "*" /\ sym_parts[2] # expiry
             THEN AtmGroupLoop(expiry_groups, rest, underlying, expiry, option_type)
             ELSE IF sym_parts[3] \notin DOMAIN FloatTable
             THEN AtmGroupLoop(expiry_groups, rest, underlying, expiry, option_type)
             ELSE AtmGroupLoop(GroupAppend(expiry_groups, sym_parts[2],
                                           <<FloatTable[sym_parts[3]], sym_parts>>),
                               rest, underlying, expiry, option_type)

\* line 381: min(range(len(strikes_data)), key=...), the first of the closest
AtmIdx(strikes_data, spot_price) ==
    CHOOSE i \in 1..Len(strikes_data) :
        /\ \A j \in 1..Len(strikes_data) :
              Abs(strikes_data[i][1] - spot_price) <= Abs(strikes_data[j][1] - spot_price)
        /\ \A j \in 1..(i - 1) :
              Abs(strikes_data[j][1] - spot_price) > Abs(strikes_data[i][1] - spot_price)

\* lines 384-385: atm_idx - 2 and atm_idx + 3
StrikesEachSide == 2

\* lines 376-389 for one expiry
SelectedSymbols(strikes_data, spot_price) ==
    LET sorted == SortByStrike(strikes_data)
        atm_idx == AtmIdx(sorted, spot_price)
        start_idx == Max(1, atm_idx - StrikesEachSide)
        end_idx == IF atm_idx + StrikesEachSide <= Len(sorted)
                   THEN atm_idx + StrikesEachSide ELSE Len(sorted)
    IN  [k \in 1..(end_idx - start_idx + 1) |-> sorted[start_idx + k - 1][2]]

RECURSIVE AtmSelectLoop(_, _)
AtmSelectLoop(expiry_groups, spot_price) ==
    IF expiry_groups = <<>> THEN <<>>
    ELSE SelectedSymbols(Head(expiry_groups)[2], spot_price)
             \o AtmSelectLoop(Tail(expiry_groups), spot_price)

FilterAtmSymbols(all_symbols, pattern, spot_price) ==
    IF Len(pattern) # 4 THEN <<>>
    ELSE IF spot_price = 0 THEN <<>>
    ELSE AtmSelectLoop(AtmGroupLoop(<<>>, all_symbols, pattern[1], pattern[2], pattern[4]),
                       spot_price)

\* the exchange's symbol list, not in strike order: calls of one expiry at
\* four strikes, a put, a call of another expiry, a strike that is no number
\* and three fields
ExchangeSymbols ==
    << <<"BTC", E1, "95000", "C">>,
       <<"BTC", E1, "95000", "P">>,
       <<"BTC", E2, "95000", "C">>,
       <<"BTC", E1, "85000", "C">>,
       <<"ETH", E1, "X", "C">>,
       <<"BTC", E1, "100000", "C">>,
       <<"BTC", E1, "C">>,
       <<"BTC", E1, "90000", "C">> >>

AtmPatterns ==
    { <<"BTC", "*", "ATM", "C">>, <<"BTC", E1, "ATM", "C">>, <<"BTC", "ATM", "C">> }

\* self.spot_prices.get("BTCUSDT", 0)
AtmSpotPrices == {0, 99000}

\* the entries of a list at the positions in I, in the list's order
Listed(list, I) ==
    LET upto[k \in 0..Len(list)] ==
            IF k = 0 THEN <<>>
            ELSE IF k \in I THEN Append(upto[k - 1], list[k]) ELSE upto[k - 1]
    IN  upto[Len(list)]

\* the listings of at most n of the symbols
ListingsUpTo(list, n) ==
    { Listed(list, I) : I \in { J \in SUBSET (1..Len(list)) : Cardinality(J) <= n } }

FilterAtmSymbolsCalls ==
    { [fn |-> "_filter_atm_symbols", all_symbols |-> syms, pattern |-> pat,
       spot_price |-> spot, result |-> Pending] :
      syms \in ListingsUpTo(ExchangeSymbols, MaxQuotes + 1),
      pat \in AtmPatterns, spot \in AtmSpotPrices }

CallFilterAtmSymbols ==
    /\ call.fn = "_filter_atm_symbols"
    /\ call.result = Pending
    /\ call' = [call EXCEPT !.result =
                    Result(FilterAtmSymbols(call.all_symbols, call.pattern,
                                            call.spot_price))]
    /\ UNCHANGED <<config, tracker, prices, atm_db, now, marks, observed>>

\* quotes for the grouping: two expiries, identifiers of three, four and five
\* fields
GroupQuotes ==
    { Mark(<<"BTC", E1, "95000", "C">>, 5000, 20000, 30),
      Mark(<<"BTC", E1, "100000", "P">>, 5200, 20000, -30),
      Mark(<<"BTC", E2, "95000", "C">>, 5400, 20000, 30),
      Mark(<<"BTC", E1, "C">>, 5000, 20000, 30),
      Mark(<<"BTC", E2, "95000", "C", "X">>, 5000, 20000, 30) }

GroupByExpiryCalls ==
    { [fn |-> "_group_by_expiry", marks |-> ms, result |-> Pending] :
      ms \in SeqsUpTo(GroupQuotes, MaxQuotes + 1) }

CallGroupByExpiry ==
    /\ call.fn = "_group_by_expiry"
    /\ call.result = Pending
    /\ call' = [call EXCEPT !.result = Result(GroupByExpiry(call.marks))]
    /\ UNCHANGED <<config, tracker, prices, atm_db, now, marks, observed>>

CallCalculateStatistics ==
    /\ call.fn = "calculate_statistics"
    /\ call.result = Pending
    /\ call' = [call EXCEPT !.result =
                    CalculateStatistics(call.self, call.iv_history, call.current_iv)]
    /\ UNCHANGED <<config, tracker, prices, atm_db, now, marks, observed>>

CallFindSyntheticAtmIv ==
    /\ call.fn = "find_synthetic_atm_iv"
    /\ call.result = Pending
    /\ LET found == FindSyntheticAtmIv(call.marks_for_expiry, call.spot_price)
       IN  call' = [call EXCEPT
                      !.result = found,
                      !.iv_float =
                          IF found.raised THEN Raised
                          ELSE FindSyntheticAtmIvFloat(call.marks_for_expiry,
                                                       call.spot_price)]
    /\ UNCHANGED <<config, tracker, prices, atm_db, now, marks, observed>>

CallFind25DeltaIvsDualSystem ==
    /\ call.fn = "find_25delta_ivs_dual_system"
    /\ call.result = Pending
    /\ call' = [call EXCEPT !.result =
                    Find25DeltaIvsDualSystem(call.marks_for_expiry, call.perp_mark_price,
                                             call.funding_rate, call.time_to_expiry_years)]
    /\ UNCHANGED <<config, tracker, prices, atm_db, now, marks, observed>>

InitAnalyzer ==
    /\ call \in CalculateStatisticsCalls \cup FindSyntheticAtmIvCalls
                 \cup Find25DeltaIvsDualSystemCalls
                 \cup GetSmartSellableStrikesCalls
                 \cup GroupByExpiryCalls
                 \cup FilterAtmSymbolsCalls
    /\ statistics_mode = "statistical"
    /\ last_alerted_iv = EmptyDict
    /\ initial_alert_iv = EmptyDict
    /\ spot_prices = EmptyDict
    /\ perpetual_mark_prices = EmptyDict
    /\ atm_db = {}
    /\ now = 0
    /\ marks = <<>>
    /\ alerts = <<>>
    /\ log = <<>>
    /\ db_ops = <<>>

NextAnalyzer ==
    \/ CallCalculateStatistics
    \/ CallFindSyntheticAtmIv
    \/ CallFind25DeltaIvsDualSystem
    \/ CallGroupByExpiry
    \/ CallFilterAtmSymbols
    \/ CallGetSmartSellableStrikes

SpecAnalyzer == InitAnalyzer /\ [][NextAnalyzer]_vars

(***************************************************************************)
(* Vocabulary of the claims, stated over the snapshot directly             *)
(***************************************************************************)
\* positions of the snapshot's quotes that belong to an expiry
QuotesOf(e) == { i \in 1..Len(marks) : Len(marks[i].symbol) = 4 /\ marks[i].symbol[2] = e }

\* positions that pass the IV / open-interest / delta filter
QualifyingOf(e) ==
    { i \in QuotesOf(e) :
        /\ marks[i].markIV * 100 > iv_threshold
        /\ marks[i].sumOpenInterest > min_open_interest
        /\ (marks[i].delta >= delta_min \/ -marks[i].delta >= delta_min)
        /\ marks[i].delta <= delta_max
        /\ -marks[i].delta <= delta_max }

HighestOf(S) == CHOOSE v \in S : \A w \in S : w <= v

\* highest mark IV (pp) among the qualifying quotes of an expiry
MaxIvOf(e) == HighestOf({ marks[i].markIV * 100 : i \in QualifyingOf(e) })

\* highest mark IV (pp) among all quotes of an expiry
HighestIvOf(e) == HighestOf({ marks[i].markIV * 100 : i \in QuotesOf(e) })

Last(e) == DictGet(last_alerted_iv, e, 0)
Initial(e) == DictGet(initial_alert_iv, e, 0)
LastAfter(e) == DictGet(last_alerted_iv', e, 0)
InitialAfter(e) == DictGet(initial_alert_iv', e, 0)

\* alerts of the check for an expiry (positions in the primed alert list)
AlertsAfter(e) == { i \in 1..Len(alerts') : alerts'[i].expiry_date = e }
AlertsNow(e) == { i \in 1..Len(alerts) : alerts[i].expiry_date = e }
LogNow(e) == { i \in 1..Len(log) : log[i].expiry_date = e }

ResetHolds(e) == Initial(e) > 0 /\ MaxIvOf(e) < Initial(e) - 20000
RisingHolds(e) == MaxIvOf(e) >= Last(e) + iv_increase_threshold

(***************************************************************************)
(* C1 -- simple mode reset.  In a simple-mode check, an expiry with        *)
(* initial_alert_iv > 0 whose max_iv over the qualifying quotes is below   *)
(* initial_alert_iv - 2.0 gets last_alerted_iv = initial_alert_iv = 0 and  *)
(* no alert; and an expiry left at 0/0 by a reset (key present, value 0)   *)
(* is handled by the next check with a qualifying quote as a first         *)
(* observation: one alert, no previous IV, last = initial = max_iv.        *)
(***************************************************************************)
C1_Reset ==
    [][CheckSimpleThreshold =>
        \A e \in Expiries :
            /\ (QualifyingOf(e) # {} /\ ResetHolds(e)) =>
                   /\ e \in DOMAIN last_alerted_iv' /\ last_alerted_iv'[e] = 0
                   /\ e \in DOMAIN initial_alert_iv' /\ initial_alert_iv'[e] = 0
                   /\ AlertsAfter(e) = {}
            /\ (/\ e \in DOMAIN last_alerted_iv /\ last_alerted_iv[e] = 0
                /\ e \in DOMAIN initial_alert_iv /\ initial_alert_iv[e] = 0
                /\ QualifyingOf(e) # {}) =>
                   /\ Cardinality(AlertsAfter(e)) = 1
                   /\ \A i \in AlertsAfter(e) : alerts'[i].previous_iv = 0
                   /\ LastAfter(e) = MaxIvOf(e)
                   /\ InitialAfter(e) = MaxIvOf(e)]_vars

\* a check has just reset E1 (was tracking from 47.5, max_iv 45.2)
C1_Witness ==
    /\ \E i \in LogNow(E1) : log[i].event = "reset" /\ log[i].from_iv = 475000
                              /\ log[i].max_iv = 452000
    /\ E1 \in DOMAIN last_alerted_iv /\ last_alerted_iv[E1] = 0
    /\ initial_alert_iv[E1] = 0
    /\ AlertsNow(E1) = {}

(***************************************************************************)
(* C2 -- simple mode first alert.  In a simple-mode check, an expiry whose *)
(* last_alerted_iv is 0 and that has at least one qualifying quote gets    *)
(* exactly one alert and last_alerted_iv = initial_alert_iv = max_iv.      *)
(***************************************************************************)
C2_FirstAlert ==
    [][CheckSimpleThreshold =>
        \A e \in Expiries :
            (Last(e) = 0 /\ QualifyingOf(e) # {}) =>
                /\ Cardinality(AlertsAfter(e)) = 1
                /\ LastAfter(e) = MaxIvOf(e)
                /\ InitialAfter(e) = MaxIvOf(e)]_vars

\* a first alert for E1 from two qualifying quotes, the higher one second
C2_Witness ==
    /\ Len(marks) = 2
    /\ QualifyingOf(E1) = {1, 2}
    /\ marks[1].markIV < marks[2].markIV
    /\ \E i \in AlertsNow(E1) : alerts[i].previous_iv = 0
    /\ Last(E1) = MaxIvOf(E1) /\ Initial(E1) = MaxIvOf(E1)

(***************************************************************************)
(* C3 -- simple mode rising alert.  In a simple-mode check, an armed       *)
(* expiry (last_alerted_iv > 0) for which the reset condition does not     *)
(* hold and max_iv >= last_alerted_iv + iv_increase_threshold gets an      *)
(* alert that carries the last alerted IV as previous value, last = max_iv *)
(* and initial unchanged.                                                  *)
(***************************************************************************)
C3_RisingAlert ==
    [][CheckSimpleThreshold =>
        \A e \in Expiries :
            (Last(e) > 0 /\ QualifyingOf(e) # {} /\ ~ResetHolds(e) /\ RisingHolds(e)) =>
                /\ Cardinality(AlertsAfter(e)) = 1
                /\ \A i \in AlertsAfter(e) : alerts'[i].previous_iv = Last(e)
                /\ LastAfter(e) = MaxIvOf(e)
                /\ InitialAfter(e) = Initial(e)]_vars

\* the spec's scenario: armed at 46.2, then 47.5 alerts against 46.2
C3_Witness ==
    /\ Initial(E1) = 462000 /\ Last(E1) = 475000
    /\ \E i \in AlertsNow(E1) : alerts[i].previous_iv = 462000
    /\ \E i \in LogNow(E1) : log[i].event = "increased" /\ log[i].max_iv = 475000

(***************************************************************************)
(* C4 -- simple mode suppression.  In a simple-mode check, an armed expiry *)
(* with a qualifying quote for which neither the reset condition nor the   *)
(* rising condition holds gets no alert and keeps last_alerted_iv and      *)
(* initial_alert_iv.                                                       *)
(***************************************************************************)
C4_Suppression ==
    [][CheckSimpleThreshold =>
        \A e \in Expiries :
            (Last(e) > 0 /\ QualifyingOf(e) # {} /\ ~ResetHolds(e) /\ ~RisingHolds(e)) =>
                /\ AlertsAfter(e) = {}
                /\ LastAfter(e) = Last(e)
                /\ InitialAfter(e) = Initial(e)]_vars

\* the spec's scenario: armed at 46.2, a cycle at 46.9 is suppressed
C4_Witness ==
    /\ Last(E1) = 462000 /\ Initial(E1) = 462000
    /\ \E i \in LogNow(E1) : log[i].event = "no_alert" /\ log[i].max_iv = 469000
    /\ AlertsNow(E1) = {}

C6_AutoResetOnAnyDrop ==
    [][CheckSimpleThreshold =>
        \A e \in Expiries :
            (Initial(e) > 0 /\ QuotesOf(e) # {} /\ HighestIvOf(e) < Initial(e) - 20000) =>
                (LastAfter(e) = 0 /\ InitialAfter(e) = 0)]_vars

(***************************************************************************)
(* C7 -- simple mode qualification.  A quote qualifies exactly when        *)
(* markIV*100 > iv_threshold, open interest > min_open_interest and        *)
(* delta_min <= |delta| <= delta_max.  Every check writes one log line per *)
(* expiry of the snapshot: "no_strikes" exactly when no quote of the       *)
(* expiry qualifies, and otherwise a line whose max_iv is the highest      *)
(* markIV*100 over the qualifying quotes only; an alert lists exactly the  *)
(* qualifying quotes, in snapshot order.                                   *)
(***************************************************************************)
C7_Qualification ==
    [][CheckSimpleThreshold =>
        \A e \in Expiries :
            LET lines == { i \in 1..Len(log') : log'[i].expiry_date = e }
            IN  /\ Cardinality(lines) = IF QuotesOf(e) = {} THEN 0 ELSE 1
                /\ \A i \in lines :
                      /\ (log'[i].event = "no_strikes") = (QualifyingOf(e) = {})
                      /\ QualifyingOf(e) # {} => log'[i].max_iv = MaxIvOf(e)
                /\ \A a \in AlertsAfter(e) :
                      LET ts == alerts'[a].triggered_strikes
                      IN  /\ Len(ts) = Cardinality(QualifyingOf(e))
                          /\ \A k \in 1..Len(ts) :
                                \E i \in QualifyingOf(e) :
                                  /\ Cardinality({ j \in QualifyingOf(e) : j <= i }) = k
                                  /\ ts[k].symbol = marks[i].symbol
                                  /\ ts[k].markIV = marks[i].markIV * 100]_vars

\* a check where a non-qualifying quote carries the higher IV
C7_Witness ==
    /\ Len(marks) = 2
    /\ QuotesOf(E1) = {1, 2}
    /\ Cardinality(QualifyingOf(E1)) = 1
    /\ HighestIvOf(E1) > MaxIvOf(E1)
    /\ \E i \in LogNow(E1) : log[i].event = "exceed" /\ log[i].max_iv = MaxIvOf(E1)
    /\ Last(E1) = MaxIvOf(E1)

(***************************************************************************)
(* Vocabulary of the statistical-mode claims                               *)
(***************************************************************************)
\* the check asked the store for the history of the expiry
Examined(e) == \E i \in 1..Len(db_ops') : db_ops'[i] = <<"get_atm_history", e>>

\* the 24h history the check read for an expiry (its own insert included)
HistoryRead(e) == GetAtmHistory(atm_db', e, HISTORY_MINUTES, Datetime(now))

\* the synthetic ATM IV the check computed and stored for the expiry
CurrentIvOf(e) ==
    (CHOOSE r \in atm_db' : r.expiry_date = e /\ r.timestamp.at = now).synthetic_atm_iv

\* the same rows with each timestamp as the instant it records
AsInstants(h) == [ i \in 1..Len(h) |-> [h[i] EXCEPT !.timestamp = Datetime(@.at)] ]

SpanOf(h) == MaxTs(h).at - MinTs(h).at

\* the statistics of the history read: enough rows over enough time, and
\* the current IV more than z_score_threshold deviations above the mean
AbnormalHistory(e) ==
    LET stats == CalculateStatistics(analyzer, AsInstants(HistoryRead(e)), CurrentIvOf(e))
    IN  ~stats.raised /\ stats.value.some /\ stats.value.v.is_abnormal

\* the quotes of an expiry, as grouped by the check
MarksOf(e) ==
    LET groups == GroupByExpiry(marks)
    IN  IF \E i \in 1..Len(groups) : groups[i][1] = e
        THEN groups[CHOOSE i \in 1..Len(groups) : groups[i][1] = e][2]
        ELSE <<>>

\* the Opportunity Ranker's candidates for an expiry
CandidatesOf(e) == GetSmartSellableStrikes(MarksOf(e), delta_min, delta_max, now)

(***************************************************************************)
(* C8 -- statistical mode alert gate.  In a statistical-mode check, an     *)
(* alert is sent for an expiry if and only if the statistics of the        *)
(* history read for it are a result with is_abnormal true and the ranker   *)
(* returns at least one candidate.                                         *)
(***************************************************************************)
C8_AlertGate ==
    [][CheckStatisticalAbnormality =>
        \A e \in Expiries :
            (AlertsAfter(e) # {}) <=>
                (Examined(e) /\ AbnormalHistory(e) /\ CandidatesOf(e) # <<>>)]_vars

(***************************************************************************)
(* C9 -- statistical mode keeps no de-duplication memory.  A statistical   *)
(* check leaves last_alerted_iv and initial_alert_iv as they were, and     *)
(* sends an alert for every expiry whose history is abnormal and that has  *)
(* a sellable candidate, whatever earlier checks sent: so in each of N     *)
(* consecutive checks in which the condition holds.                        *)
(***************************************************************************)
C9_NoDedupMemory ==
    [][CheckStatisticalAbnormality =>
        /\ UNCHANGED tracker
        /\ \A e \in Expiries :
              (Examined(e) /\ AbnormalHistory(e) /\ CandidatesOf(e) # <<>>) =>
                  Cardinality(AlertsAfter(e)) = 1]_vars

(***************************************************************************)
(* C10 -- insufficient-data guards.  For the history a statistical check   *)
(* reads, calculate_statistics returns None whenever the history has fewer *)
(* than min_samples rows or spans less than min_history_hours, and then    *)
(* the check sends no alert for the expiry.                                *)
(***************************************************************************)
C10_InsufficientData ==
    [][CheckStatisticalAbnormality =>
        \A e \in Expiries :
            Examined(e) =>
                LET iv_history == HistoryRead(e)
                    stats == CalculateStatistics(analyzer, iv_history, CurrentIvOf(e))
                IN  (Len(iv_history) < min_samples
                     \/ SpanOf(iv_history) < min_history_minutes) =>
                        (~stats.raised /\ stats.value = None /\ AlertsAfter(e) = {})]_vars

(***************************************************************************)
(* Claims about the analyzer's functions, over SpecAnalyzer                *)
(***************************************************************************)
\* a calculate_statistics call that returned an IVStatistics
StatsReturned ==
    /\ call.fn = "calculate_statistics"
    /\ call.result # Pending
    /\ ~call.result.raised
    /\ call.result.value.some

CallN == Len(call.iv_history)
CallTotal == SumIv(call.iv_history)
\* n * (current - mean)
CallDeviation == CallN * call.current_iv - CallTotal
\* n^2 (n-1) * variance
CallSquares ==
    LET RECURSIVE Sq(_)
        Sq(i) == IF i = 0 THEN 0
                 ELSE (CallN * call.iv_history[i].synthetic_atm_iv - CallTotal)
                      * (CallN * call.iv_history[i].synthetic_atm_iv - CallTotal)
                      + Sq(i - 1)
    IN  Sq(CallN)
\* sample standard deviation above 1e-6 (IVs in 1e-4)
CallStdPositive == CallSquares > (CallN * CallN * (CallN - 1)) \div 10000
\* z = (current - mean) / std, or 0; the sign of z - threshold
ZExceeds(t) ==
    LET a == IF CallStdPositive THEN CallDeviation * ZScale ELSE 0
        lhs == a * a * (CallN - 1)
        rhs == t * t * (IF CallStdPositive THEN CallSquares ELSE 1)
    IN  IF a > 0 /\ t >= 0 THEN lhs > rhs
        ELSE IF a >= 0 /\ t < 0 THEN TRUE
        ELSE IF a <= 0 /\ t >= 0 THEN FALSE
        ELSE lhs < rhs
ZEquals(t) ==
    LET a == IF CallStdPositive THEN CallDeviation * ZScale ELSE 0
    IN  /\ (a >= 0) = (t >= 0)
        /\ a * a * (CallN - 1) = t * t * (IF CallStdPositive THEN CallSquares ELSE 1)

\* C11: the abnormality flag is one-sided and strict.  is_abnormal is true
\* exactly when z > z_score_threshold, where z = (current - mean) / std if
\* the sample standard deviation exceeds 1e-6 and z = 0 otherwise; so z is
\* 0 when current equals the mean, and for a non-negative threshold neither
\* a current value at or below the mean nor a zero-variance history is
\* abnormal.
C11_StrictOneSided ==
    StatsReturned =>
        LET stats == call.result.value.v
            t == call.self.z_score_threshold
        IN  /\ stats.is_abnormal = ZExceeds(t)
            /\ (~CallStdPositive => stats.z_dev = 0)
            /\ (CallDeviation = 0 => stats.z_dev = 0)
            /\ (t >= 0 /\ CallDeviation <= 0 => ~stats.is_abnormal)
            /\ (t >= 0 /\ CallSquares = 0 => ~stats.is_abnormal)

\* a z-score exactly at a positive threshold, flagged normal
C11_Witness ==
    /\ StatsReturned
    /\ call.self.z_score_threshold > 0
    /\ CallStdPositive
    /\ ZEquals(call.self.z_score_threshold)
    /\ ~call.result.value.v.is_abnormal

(***************************************************************************)
(* Claims about one polling cycle, over Spec                               *)
(***************************************************************************)
SpotNow == DictGet(spot_prices, "BTCUSDT", 0)
PerpNow == DictGet(perpetual_mark_prices, "BTCUSDT", 0)

\* a cycle of either mode
CheckAllSymbolsIv == CheckSimpleThreshold \/ CheckStatisticalAbnormality

\* the store calls the check issued for an expiry, served or not
OpsAfter(e) == { i \in 1..Len(db_ops') : db_ops'[i][2] = e }
InsertsAfter(e) == { i \in OpsAfter(e) : db_ops'[i][1] = "insert_atm_record" }
ReadsAfter(e) == { i \in OpsAfter(e) : db_ops'[i][1] = "get_atm_history" }
LogAfter(e) == { i \in 1..Len(log') : log'[i].expiry_date = e }
RowsOf(db, e) == { r \in db : r.expiry_date = e }

\* an expiry of the snapshot whose quotes give a synthetic ATM IV and whose
\* expiry date parses
Evaluable(e) ==
    /\ MarksOf(e) # <<>>
    /\ LET found == FindSyntheticAtmIv(MarksOf(e), SpotNow)
       IN  ~found.raised /\ found.iv # 0
    /\ GetDaysToExpiry(MarksOf(e)[1].symbol, now).some

\* C12: context unavailable.  In a polling cycle where the stored spot price
\* or perpetual mark price is zero or missing, no expiry is evaluated: no
\* historical record is inserted, no alert is sent and no tracker state
\* changes.  A cycle in which both are non-zero evaluates normally, whatever
\* the earlier cycles lacked.
C12_ContextUnavailable ==
    [][CheckAllSymbolsIv =>
        /\ (SpotNow = 0 \/ PerpNow = 0) =>
              /\ atm_db' = atm_db
              /\ db_ops' = <<>>
              /\ alerts' = <<>>
              /\ UNCHANGED tracker
        /\ (statistics_mode = "statistical" /\ SpotNow # 0 /\ PerpNow # 0) =>
              \A e \in Expiries : Evaluable(e) => InsertsAfter(e) # {}]_vars

\* the expiries of the snapshot, as grouped by the check
SnapshotExpiries ==
    LET groups == GroupByExpiry(marks)
    IN  { groups[i][1] : i \in 1..Len(groups) }

\* find_synthetic_atm_iv returns an IV of 0 for the expiry's quotes
ZeroSyntheticIv(e) ==
    LET found == FindSyntheticAtmIv(MarksOf(e), SpotNow)
    IN  ~found.raised /\ found.iv = 0

\* C13: zero synthetic IV means no data.  In statistical mode, when
\* find_synthetic_atm_iv returns an IV of 0 for an expiry, that expiry is
\* skipped for the cycle: no skew is computed, no historical record is
\* inserted and no alert is sent, while the remaining expiries of the
\* cycle are still processed.
C13_ZeroIvSkipped ==
    [][(CheckStatisticalAbnormality /\ SpotNow # 0 /\ PerpNow # 0) =>
        \A e \in SnapshotExpiries :
            ZeroSyntheticIv(e) =>
                /\ LogAfter(e) = {}
                /\ OpsAfter(e) = {}
                /\ RowsOf(atm_db', e) = RowsOf(atm_db, e)
                /\ AlertsAfter(e) = {}
                /\ \A other \in SnapshotExpiries \ {e} :
                      /\ ~ZeroSyntheticIv(other) => LogAfter(other) # {}
                      /\ Evaluable(other) => InsertsAfter(other) # {}]_vars

\* a check has skipped the zero-IV expiry it met first and stored the
\* record of the one after it
C13_Witness ==
    /\ statistics_mode = "statistical"
    /\ Len(marks) = 2
    /\ marks[1].symbol[2] = E2 /\ marks[1].markIV = 0
    /\ marks[2].symbol[2] = E1
    /\ db_ops # <<>>
    /\ db_ops[1] = <<"insert_atm_record", E1>>
    /\ \A i \in 1..Len(db_ops) : db_ops[i][2] = E1
    /\ \A i \in 1..Len(log) : log[i].expiry_date = E1

\* what the check did for one expiry: its log lines, store calls and alerts
\* in order, and its rows
LogOf(lines, e) == LET Mine(l) == l.expiry_date = e IN SelectSeq(lines, Mine)
OpsOf(ops, e) == LET Mine(o) == o[2] = e IN SelectSeq(ops, Mine)
AlertsOf(as, e) == LET Mine(a) == a.expiry_date = e IN SelectSeq(as, Mine)

\* the expiry's evaluation ended in the handler of lines 616-620
ErrorLogged(e) == \E i \in LogAfter(e) : log'[i].event = "error"

\* the expiry evaluated on its own against the state before the check
EvaluatedAlone(e, fault) ==
    StatExpiry([db |-> atm_db, alerts |-> <<>>, log |-> <<>>, db_ops |-> <<>>,
                last |-> last_alerted_iv, initial |-> initial_alert_iv,
                fault |-> fault],
               e, MarksOf(e), SpotNow, Datetime(now))

\* C14: failure isolation.  An error raised while evaluating one expiry (by
\* the interpolator, the store or the decision logic) is confined to that
\* expiry and cycle: every other expiry of the cycle is evaluated as it
\* would be on its own, and a cycle evaluates each of its expiries from the
\* snapshot, prices, store and clock alone, whether or not the expiry
\* failed in an earlier cycle.
C14_FailureIsolation ==
    [][(CheckStatisticalAbnormality /\ SpotNow # 0 /\ PerpNow # 0) =>
        \E fault \in StoreFaults :
            \A e \in SnapshotExpiries :
                LET alone == EvaluatedAlone(e, fault)
                IN  /\ LogOf(log', e) = alone.log
                    /\ OpsOf(db_ops', e) = alone.db_ops
                    /\ AlertsOf(alerts', e) = alone.alerts
                    /\ RowsOf(atm_db', e) = RowsOf(alone.db, e)]_vars

\* the second cycle of an expiry that failed in the first (three rows, the
\* statistics raised), behind an expiry whose interpolation raised: the
\* record of the second cycle is stored
C14_Witness ==
    /\ statistics_mode = "statistical"
    /\ now = TickMinutes
    /\ SeededStore \subseteq atm_db
    /\ \E r \in atm_db : r.expiry_date = E1 /\ r.timestamp.at = 0
    /\ \E r \in atm_db : r.expiry_date = E1 /\ r.timestamp.at = now
    /\ Len(marks) = 2
    /\ marks[1].symbol[2] = E2
    /\ marks[2].symbol[2] = E1
    /\ log # <<>>
    /\ log[1] = StatLine(E2, "error")
    /\ log[Len(log)] = StatLine(E1, "error")
    /\ \E i \in 1..Len(db_ops) : db_ops[i] = <<"insert_atm_record", E1>>

\* the orders in which a cycle's expiries can be evaluated
EvaluationOrders(n) == { f \in [1..n -> 1..n] : \A i, j \in 1..n : f[i] = f[j] => i = j }
Reordered(groups, f) == [ i \in 1..Len(groups) |-> groups[f[i]] ]
Elements(seq) == { seq[i] : i \in 1..Len(seq) }

\* the notifier's outage during the check, read off the alerts it left
OutageAfter ==
    IF \E i \in 1..Len(alerts') : ~alerts'[i].delivered THEN Expiries ELSE {}

TrackerNow ==
    [last |-> last_alerted_iv, initial |-> initial_alert_iv,
     alerts |-> <<>>, log |-> <<>>, failing |-> OutageAfter]

\* C15: expiry independence.  Within one polling cycle, evaluating an expiry
\* reads and writes only that expiry's tracker entry, so for every
\* permutation of the order in which the cycle's expiries are evaluated the
\* resulting last_alerted_iv / initial_alert_iv maps and the set of alerts
\* emitted are identical.
C15_ExpiryIndependence ==
    [][CheckSimpleThreshold =>
        LET groups == GroupByExpiry(marks)
        IN  /\ \A f \in EvaluationOrders(Len(groups)) :
                  LET st == SimpleLoop(TrackerNow, Reordered(groups, f))
                  IN  /\ st.last = last_alerted_iv'
                      /\ st.initial = initial_alert_iv'
                      /\ Elements(st.alerts) = Elements(alerts')
            /\ \A e \in SnapshotExpiries :
                  LET alone == SimpleExpiry(TrackerNow, e, MarksOf(e))
                  IN  /\ LastAfter(e) = DictGet(alone.last, e, 0)
                      /\ InitialAfter(e) = DictGet(alone.initial, e, 0)
                      /\ AlertsOf(alerts', e) = alone.alerts
            /\ \A e \in (DOMAIN last_alerted_iv' \cup DOMAIN initial_alert_iv')
                          \ SnapshotExpiries :
                  LastAfter(e) = Last(e) /\ InitialAfter(e) = Initial(e)]_vars

\* one cycle has reset the tracking of one expiry and alerted on another
C15_Witness ==
    /\ statistics_mode = "simple"
    /\ \E i \in 1..Len(log), j \in 1..Len(alerts) :
          /\ log[i].event = "reset"
          /\ alerts[j].expiry_date # log[i].expiry_date

\* C16: store protocol per cycle.  In statistical mode, for each expiry in
\* each cycle the core issues at most one insert and at most one history
\* range-read, and the insert comes before the read, so the series the
\* statistics run on includes the record of the current cycle; an expiry
\* skipped before the insert issues neither.
C16_StoreProtocol ==
    [][CheckStatisticalAbnormality =>
        /\ \A i \in 1..Len(db_ops') : db_ops'[i][2] \in SnapshotExpiries
        /\ \A e \in SnapshotExpiries :
              /\ Cardinality(InsertsAfter(e)) <= 1
              /\ Cardinality(ReadsAfter(e)) <= 1
              /\ \A r \in ReadsAfter(e) :
                    \E i \in InsertsAfter(e) :
                        i < r /\ db_ops'[i] = <<"insert_atm_record", e>>
              /\ Examined(e) =>
                    \E k \in 1..Len(HistoryRead(e)) :
                        /\ HistoryRead(e)[k].timestamp.at = now
                        /\ HistoryRead(e)[k].synthetic_atm_iv =
                              FindSyntheticAtmIv(MarksOf(e), SpotNow).iv
              /\ (SpotNow = 0 \/ PerpNow = 0 \/ ~Evaluable(e)) => OpsAfter(e) = {}]_vars

\* a check has inserted the record of an expiry and then read its history,
\* and has issued no call for the expiry it skipped
C16_Witness ==
    /\ statistics_mode = "statistical"
    /\ Len(marks) = 2
    /\ marks[1].symbol[2] = E1
    /\ marks[2].symbol[2] = E3
    /\ db_ops = << <<"insert_atm_record", E1>>, <<"get_atm_history", E1>> >>
    /\ \E r \in atm_db : r.expiry_date = E1 /\ r.timestamp.at = now

(***************************************************************************)
(* Claims about find_synthetic_atm_iv, over SpecAnalyzer                   *)
(***************************************************************************)
\* a find_synthetic_atm_iv call that has ended
Interpolated == call.fn = "find_synthetic_atm_iv" /\ call.result # Pending

\* the quotes of the call with an IV above 0 and a numeric strike
ValidQuotes ==
    { i \in 1..Len(call.marks_for_expiry) :
        /\ call.marks_for_expiry[i].markIV > 0
        /\ GetStrikeFromSymbol(call.marks_for_expiry[i].symbol).some }
StrikeAt(i) == GetStrikeFromSymbol(call.marks_for_expiry[i].symbol).v
IvAt(i) == call.marks_for_expiry[i].markIV
ValidStrikes == { StrikeAt(i) : i \in ValidQuotes }

\* spot lies between two valid strikes
Bracketed ==
    /\ Cardinality(ValidQuotes) >= 2
    /\ \E k \in ValidStrikes : k <= call.spot_price
    /\ \E k \in ValidStrikes : k > call.spot_price

LowerStrike == HighestOf({ k \in ValidStrikes : k <= call.spot_price })
UpperStrike == CHOOSE k \in ValidStrikes :
                  /\ k > call.spot_price
                  /\ \A j \in ValidStrikes : j > call.spot_price => k <= j
\* of several quotes on one strike, the scan keeps the last one below spot
\* and the first one above it
LowerQuote == HighestOf({ i \in ValidQuotes : StrikeAt(i) = LowerStrike })
UpperQuote == CHOOSE i \in ValidQuotes :
                  /\ StrikeAt(i) = UpperStrike
                  /\ \A j \in ValidQuotes : StrikeAt(j) = UpperStrike => i <= j

\* C17: bracketed interpolation.  With at least two valid (strike, IV > 0)
\* pairs and spot between two of them, find_synthetic_atm_iv uses the
\* largest strike <= spot and the smallest strike > spot and returns
\* IV = w_lower * iv_lower + (1 - w_lower) * iv_upper with
\* w_lower = (upper_strike - spot) / (upper_strike - lower_strike), and the
\* spot price as the reference strike; strikes (95000, 0.50), (100000, 0.54)
\* and spot 97400 give 0.5192; the strike-range divisor is never zero.
C17_BracketedInterpolation ==
    (Interpolated /\ Bracketed) =>
        /\ ~call.result.raised
        /\ UpperStrike - LowerStrike > 0
        /\ call.result.strike = call.spot_price
        /\ call.result.iv * (UpperStrike - LowerStrike)
              = (UpperStrike - call.spot_price) * IvAt(LowerQuote)
                + (call.spot_price - LowerStrike) * IvAt(UpperQuote)
        /\ (/\ call.spot_price = 97400
            /\ { <<StrikeAt(i), IvAt(i)>> : i \in ValidQuotes }
                  = { <<95000, 5000>>, <<100000, 5400>> })
              => call.result.iv = 5192 /\ call.iv_float = FloatOfDecimal(5192)

\* the scenario of the claim, computed
C17_Witness ==
    /\ Interpolated
    /\ Bracketed
    /\ call.spot_price = 97400
    /\ { <<StrikeAt(i), IvAt(i)>> : i \in ValidQuotes }
          = { <<95000, 5000>>, <<100000, 5400>> }
    /\ call.result = Returned(5192, 97400)

\* at least two valid pairs, and spot on one side of all of them
BelowAll == Cardinality(ValidQuotes) >= 2 /\ \A k \in ValidStrikes : call.spot_price < k
AboveAll == Cardinality(ValidQuotes) >= 2 /\ \A k \in ValidStrikes : call.spot_price >= k

LowestStrike == CHOOSE k \in ValidStrikes : \A j \in ValidStrikes : k <= j
HighestStrike == HighestOf(ValidStrikes)

\* the two IVs a bracketed call interpolates between, as floats
LowerIvFloat == FloatOfDecimal(IvAt(LowerQuote))
UpperIvFloat == FloatOfDecimal(IvAt(UpperQuote))
MinIvFloat == IF FloatLess(UpperIvFloat, LowerIvFloat) THEN UpperIvFloat ELSE LowerIvFloat
MaxIvFloat == IF FloatLess(UpperIvFloat, LowerIvFloat) THEN LowerIvFloat ELSE UpperIvFloat
FloatAtMost(x, y) == ~FloatLess(y, x)

\* spot is a listed strike: the lower strike of the bracket, or the highest
\* strike of all
ExactAtListedStrike ==
    /\ (Bracketed /\ call.spot_price = LowerStrike) => call.iv_float = LowerIvFloat
    /\ (AboveAll /\ call.spot_price = HighestStrike) =>
          \E i \in ValidQuotes :
              StrikeAt(i) = HighestStrike /\ call.iv_float = FloatOfDecimal(IvAt(i))

\* C18: interpolation bounds.  For every bracketed spot the synthetic IV
\* lies between min(lower_iv, upper_iv) and max(lower_iv, upper_iv)
\* inclusive, and when spot equals a listed strike the result equals exactly
\* that strike's IV.
C18_InterpolationBounds ==
    Interpolated =>
        /\ Bracketed =>
              /\ FloatAtMost(MinIvFloat, call.iv_float)
              /\ FloatAtMost(call.iv_float, MaxIvFloat)
        /\ ExactAtListedStrike

\* how far the floats leave the interval: between two different IVs the result
\* stays inside it; between two equal IVs it is that IV or one of the two
\* floats next to it; at a listed strike it is exact
InterpolationWithinLastPlace ==
    Interpolated =>
        /\ (Bracketed /\ LowerIvFloat # UpperIvFloat) =>
              /\ FloatAtMost(MinIvFloat, call.iv_float)
              /\ FloatAtMost(call.iv_float, MaxIvFloat)
        /\ (Bracketed /\ LowerIvFloat = UpperIvFloat) =>
              /\ FloatAtMost(LowerIvFloat, FloatAfter(call.iv_float))
              /\ FloatAtMost(call.iv_float, FloatAfter(LowerIvFloat))
        /\ ExactAtListedStrike

\* C19: one-sided interpolation.  With at least two valid pairs and spot
\* below every valid strike (resp. above or equal to the highest one),
\* find_synthetic_atm_iv returns the IV and the strike of the lowest (resp.
\* highest) valid strike unmodified, with no extrapolation; the reference
\* strike is that strike rather than spot.
C19_OneSided ==
    Interpolated =>
        /\ BelowAll =>
              /\ ~call.result.raised
              /\ call.result.strike = LowestStrike
              /\ \E i \in ValidQuotes :
                    StrikeAt(i) = LowestStrike /\ call.result.iv = IvAt(i)
        /\ AboveAll =>
              /\ ~call.result.raised
              /\ call.result.strike = HighestStrike
              /\ \E i \in ValidQuotes :
                    StrikeAt(i) = HighestStrike /\ call.result.iv = IvAt(i)

\* spot below two strikes quoted highest first: the lower strike's pair
\* is returned
C19_Witness ==
    /\ Interpolated
    /\ BelowAll
    /\ Cardinality(ValidStrikes) = 2
    /\ StrikeAt(CHOOSE i \in ValidQuotes : \A j \in ValidQuotes : i <= j) = HighestStrike
    /\ call.result.strike = LowestStrike
    /\ call.result.strike # call.spot_price

\* no quote of the call has a resolvable numeric strike (an empty list included)
NoResolvableStrike ==
    \A i \in 1..Len(call.marks_for_expiry) :
        ~GetStrikeFromSymbol(call.marks_for_expiry[i].symbol).some

\* C20: the interpolator's fallback never raises.  With fewer than two valid
\* (strike, IV > 0) pairs, find_synthetic_atm_iv returns a value instead of
\* raising; when no quote of the expiry has a resolvable numeric strike, or
\* the quote list is empty, it returns (0, spot).
C20_FallbackNeverRaises ==
    (Interpolated /\ Cardinality(ValidQuotes) < 2) =>
        /\ ~call.result.raised
        /\ NoResolvableStrike => call.result = Returned(0, call.spot_price)

(***************************************************************************)
(* Vocabulary of the skew claims                                           *)
(***************************************************************************)
\* a call of find_25delta_ivs_dual_system that has returned
SkewReturned == call.fn = "find_25delta_ivs_dual_system" /\ call.result # Pending

\* positions of the quotes whose identifier ends in -C (calls) or -P (puts)
SidePositions(type) ==
    { i \in 1..Len(call.marks_for_expiry) :
        LET symbol == call.marks_for_expiry[i].symbol
        IN  Len(symbol) >= 2 /\ symbol[Len(symbol)] = type }

\* the delta of a quote as reported, without its sign
SpotDeltaAt(i) ==
    LET delta == call.marks_for_expiry[i].delta
    IN  FloatDiv(IF delta < 0 THEN 0 - delta ELSE delta, 100)

\* the forward delta the function worked out for a quote
ForwardDeltaAt(i, type) ==
    LET k == Cardinality({ j \in SidePositions(type) : j <= i })
    IN  IF type = "C" THEN call.result.calls_forward[k] ELSE call.result.puts_forward[k]

DeltaAt(i, type, system) ==
    IF system = "spot" THEN SpotDeltaAt(i) ELSE ForwardDeltaAt(i, type)

\* | |delta| - 0.25 |
DistanceAt(i, type, system) == FloatAbsDiff(DeltaAt(i, type, system), FloatDiv(25, 100))

\* no quote of the side is nearer to 0.25, and none before it is as near
NearestAt(i, type, system) ==
    /\ i \in SidePositions(type)
    /\ \A j \in SidePositions(type) :
          /\ ~FloatLess(DistanceAt(j, type, system), DistanceAt(i, type, system))
          /\ j < i => FloatLess(DistanceAt(i, type, system), DistanceAt(j, type, system))

NoCarry == call.funding_rate = 0 /\ call.time_to_expiry_years = 0

\* C21: ghost skew vanishes without funding carry.  When the funding rate is
\* 0 and the time to expiry is 0, the forward price equals the perpetual mark
\* price, every forward delta equals its spot delta, the forward system
\* selects the same call and put as the spot system, and ghost_skew is
\* exactly 0, for every quote set.
C21_NoCarryNoGhost ==
    (SkewReturned /\ NoCarry) =>
        /\ call.result.forward_price = FloatOfInt(call.perp_mark_price)
        /\ \A type \in {"C", "P"} :
              \A i \in SidePositions(type) : ForwardDeltaAt(i, type) = SpotDeltaAt(i)
        /\ call.result.forward_call_25d = call.result.spot_call_25d
        /\ call.result.forward_put_25d = call.result.spot_put_25d
        /\ call.result.forward_call_25d_iv = call.result.spot_call_25d_iv
        /\ call.result.forward_put_25d_iv = call.result.spot_put_25d_iv
        /\ call.result.ghost_skew = 0

\* no carry, two calls and a put, and a skew that is not 0
C21_Witness ==
    /\ SkewReturned
    /\ NoCarry
    /\ Cardinality(SidePositions("C")) >= 2
    /\ SidePositions("P") # {}
    /\ call.result.spot_skew # 0
    /\ call.result.ghost_skew = 0

\* what a side contributes in a system: its nearest quote's IV, or 0 and
\* strike 0 when the side has no quote
Contributes(type, system, selected, iv, strike) ==
    IF SidePositions(type) = {}
    THEN ~selected.some /\ iv = 0 /\ strike = Some(0)
    ELSE \E i \in SidePositions(type) :
            /\ NearestAt(i, type, system)
            /\ selected = Some(call.marks_for_expiry[i])
            /\ iv = call.marks_for_expiry[i].markIV * 100

\* the IV of a side's selected quote, 0 for a side without quotes
SideIv(selected) == IF selected.some THEN selected.v.markIV ELSE 0

\* C22: 25-delta selection.  In each system and on each side (calls end in
\* -C, puts in -P) the selected quote minimises | |delta| - 0.25 |, with the
\* forward-transformed delta in the forward system; among quotes at exactly
\* equal distance the earliest in input order is selected; a side with no
\* quotes contributes IV 0 and strike 0; skew = (call IV - put IV) * 100 and
\* ghost_skew = spot_skew - forward_skew.
C22_Selection ==
    SkewReturned =>
        LET r == call.result
        IN  /\ Contributes("C", "spot", r.spot_call_25d, r.spot_call_25d_iv,
                           r.spot_call_strike)
            /\ Contributes("P", "spot", r.spot_put_25d, r.spot_put_25d_iv,
                           r.spot_put_strike)
            /\ Contributes("C", "forward", r.forward_call_25d, r.forward_call_25d_iv,
                           r.forward_call_strike)
            /\ Contributes("P", "forward", r.forward_put_25d, r.forward_put_25d_iv,
                           r.forward_put_strike)
            /\ r.spot_skew = (SideIv(r.spot_call_25d) - SideIv(r.spot_put_25d)) * 100
            /\ r.forward_skew =
                  (SideIv(r.forward_call_25d) - SideIv(r.forward_put_25d)) * 100
            /\ r.ghost_skew = r.spot_skew - r.forward_skew

\* two different calls at the same distance from 0.25 with the first of them
\* selected by the spot system, and another call selected by the forward
\* system
C22_Witness ==
    /\ SkewReturned
    /\ \E i, j \in SidePositions("C") :
          /\ i < j
          /\ call.marks_for_expiry[i] # call.marks_for_expiry[j]
          /\ DistanceAt(i, "C", "spot") = DistanceAt(j, "C", "spot")
          /\ call.result.spot_call_25d = Some(call.marks_for_expiry[i])
    /\ call.result.forward_call_25d # call.result.spot_call_25d
    /\ call.result.ghost_skew # 0

(***************************************************************************)
(* Vocabulary of the percentile claim                                      *)
(***************************************************************************)
\* the percentile the call returned, and the one the same history gives
\* another current IV
CallPercentile == call.result.value.v.iv_percentile
PercentileAt(current_iv) ==
    CalculateStatistics(call.self, call.iv_history, current_iv).value.v.iv_percentile

\* the current IVs next above the call's, in steps of 1e-4
HigherIvs == { call.current_iv + k : k \in 1..4 }

\* the history's max - min is not above 1e-6: IVs are whole numbers of 1e-4
FlatHistory ==
    \A i, j \in 1..Len(call.iv_history) :
        call.iv_history[i].synthetic_atm_iv = call.iv_history[j].synthetic_atm_iv

\* C23: percentile range and monotonicity.  For a fixed history the computed
\* iv_percentile is always within [0, 100], equals 50 when the history's
\* max - min is not above 1e-6, and never decreases when current_iv
\* increases.
C23_Percentile ==
    StatsReturned =>
        /\ ~FloatLess(FloatOfInt(100), CallPercentile)
        /\ CallPercentile = Zero \/ FloatLess(Zero, CallPercentile)
        /\ FlatHistory => CallPercentile = FloatOfInt(50)
        /\ \A current_iv \in CurrentIvs \cup HigherIvs :
              current_iv >= call.current_iv =>
                  ~FloatLess(PercentileAt(current_iv), CallPercentile)

\* a percentile strictly inside the range, for a current IV that has a
\* higher one in the model with a higher percentile
C23_Witness ==
    /\ StatsReturned
    /\ ~FlatHistory
    /\ FloatLess(Zero, CallPercentile)
    /\ FloatLess(CallPercentile, FloatOfInt(100))
    /\ \E current_iv \in CurrentIvs :
          /\ current_iv > call.current_iv
          /\ FloatLess(CallPercentile, PercentileAt(current_iv))

(***************************************************************************)
(* Vocabulary of the ranker claims                                         *)
(***************************************************************************)
\* a call of get_smart_sellable_strikes that has returned
RankerReturned == call.fn = "get_smart_sellable_strikes" /\ call.result # Pending

\* the list it returned
Sellable == call.result.value

\* the expiry field is a YYMMDD date
ParsableExpiry(symbol) == Len(symbol) = 4 /\ symbol[2] \in {E0, E1, E2}

\* positions of the quotes inside the delta band whose expiry is parsable
InBand ==
    { i \in 1..Len(call.all_marks) :
        LET delta == call.all_marks[i].delta
            size == IF delta < 0 THEN 0 - delta ELSE delta
        IN  /\ call.delta_min <= size
            /\ size <= call.delta_max
            /\ ParsableExpiry(call.all_marks[i].symbol) }

\* entry k of the result is the quote at position i, with its score
EntryOf(k, i) ==
    LET quote == call.all_marks[i]
        entry == Sellable[k]
        iv == quote.markIV * 100
        theta == IF "theta" \in DOMAIN quote
                 THEN (IF quote.theta < 0 THEN 0 - quote.theta ELSE quote.theta)
                 ELSE 0
        vega == IF "vega" \in DOMAIN quote THEN quote.vega ELSE 0
    IN  /\ entry.symbol = quote.symbol
        /\ entry.iv = iv
        /\ IF vega > 0
           THEN entry.opportunity_score.num * vega
                    = theta * iv * entry.opportunity_score.den
           ELSE entry.opportunity_score.num = iv * entry.opportunity_score.den

\* C24: Opportunity Ranker output.  get_smart_sellable_strikes returns
\* exactly the quotes whose |delta| lies in [delta_min, delta_max] (both
\* bounds inclusive) and whose expiry is parsable, each with
\* opportunity_score = (|theta| / vega) * IV% when vega > 0 and IV%
\* otherwise, ordered by non-increasing opportunity_score, with no cap on
\* length.
C24_RankerOutput ==
    RankerReturned =>
        /\ \E order \in [1..Len(Sellable) -> InBand] :
              /\ \A k, l \in 1..Len(Sellable) : order[k] = order[l] => k = l
              /\ \A i \in InBand : \E k \in 1..Len(Sellable) : order[k] = i
              /\ \A k \in 1..Len(Sellable) : EntryOf(k, order[k])
        /\ \A k, l \in 1..Len(Sellable) :
              k < l => Sellable[k].opportunity_score.num
                           * Sellable[l].opportunity_score.den
                       >= Sellable[l].opportunity_score.num
                           * Sellable[k].opportunity_score.den

\* quotes on both bounds of the band and one beside it, scored by their
\* greeks, returned in another order than they came in
C24_Witness ==
    /\ RankerReturned
    /\ Len(Sellable) >= 2
    /\ Len(Sellable) < Len(call.all_marks)
    /\ \E i, j \in InBand :
          /\ call.all_marks[i].delta = call.delta_min
          /\ call.all_marks[j].delta = 0 - call.delta_max
    /\ Sellable[1].symbol # call.all_marks[1].symbol
    /\ Sellable[1].vega > 0
    /\ Sellable[Len(Sellable)].vega > 0

(***************************************************************************)
(* Grouping by expiry                                                      *)
(***************************************************************************)
GroupingReturned == call.fn = "_group_by_expiry" /\ call.result # Pending

ExpiryGroups == call.result.value

\* the input quotes of four fields whose second field is expiry_date, in
\* input order
QuotesOfExpiry(expiry_date) ==
    SelectSeq(call.marks,
              LAMBDA mark : Len(mark.symbol) = 4 /\ mark.symbol[2] = expiry_date)

\* C25: Grouping by expiry.  _group_by_expiry puts every quote whose
\* identifier has exactly four dash-separated fields into exactly one group,
\* keyed by its second field, keeps input order inside a group, and silently
\* drops every quote with a different field count; every quote in a group
\* has the group's expiry and no group is empty.
C25_GroupByExpiry ==
    GroupingReturned =>
        /\ \A g, h \in 1..Len(ExpiryGroups) :
              ExpiryGroups[g][1] = ExpiryGroups[h][1] => g = h
        /\ \A g \in 1..Len(ExpiryGroups) :
              /\ ExpiryGroups[g][2] # <<>>
              /\ ExpiryGroups[g][2] = QuotesOfExpiry(ExpiryGroups[g][1])
              /\ \A k \in 1..Len(ExpiryGroups[g][2]) :
                    /\ Len(ExpiryGroups[g][2][k].symbol) = 4
                    /\ ExpiryGroups[g][2][k].symbol[2] = ExpiryGroups[g][1]
        /\ \A i \in 1..Len(call.marks) :
              Len(call.marks[i].symbol) = 4 =>
                  \E g \in 1..Len(ExpiryGroups) :
                      ExpiryGroups[g][1] = call.marks[i].symbol[2]

\* two groups, one of them with two different quotes that another expiry's
\* quote separates in the input, and a quote of another field count dropped
C25_Witness ==
    /\ GroupingReturned
    /\ Len(ExpiryGroups) = 2
    /\ \E g \in 1..2 :
          /\ Len(ExpiryGroups[g][2]) = 2
          /\ ExpiryGroups[g][2][1] # ExpiryGroups[g][2][2]
          /\ \E i, j, k \in 1..Len(call.marks) :
                /\ i < j /\ j < k
                /\ call.marks[i] = ExpiryGroups[g][2][1]
                /\ call.marks[k] = ExpiryGroups[g][2][2]
                /\ Len(call.marks[j].symbol) = 4
                /\ call.marks[j].symbol[2] # ExpiryGroups[g][1]
    /\ \E i \in 1..Len(call.marks) : Len(call.marks[i].symbol) # 4

(***************************************************************************)
(* Expired contracts                                                       *)
(***************************************************************************)
\* the whole days from now to the expiry's midnight, as
\* (expiry_date - datetime.utcnow()).days gives them
PlainDays(e) == FloorDiv(ExpiryMidnight[e] - now, 1440)

ExpiredOrUnparsable(e) == e \notin DOMAIN ExpiryMidnight \/ PlainDays(e) <= 0

\* C26: expired contracts are skipped in statistical mode.  When the
\* days-to-expiry of an expiry's contracts is 0 or negative or unparsable,
\* the expiry is invalid for the cycle: no skew is computed, no historical
\* record is inserted and no alert is sent.
C26_ExpiredSkipped ==
    [][(CheckStatisticalAbnormality /\ SpotNow # 0 /\ PerpNow # 0) =>
        \A e \in SnapshotExpiries :
            ExpiredOrUnparsable(e) =>
                /\ \A i \in LogAfter(e) : log'[i].event # "dual_skew"
                /\ OpsAfter(e) = {}
                /\ RowsOf(atm_db', e) = RowsOf(atm_db, e)
                /\ AlertsAfter(e) = {}]_vars

\* a check has stored a record for an expiry whose day has begun
ExpiredStored ==
    /\ statistics_mode = "statistical"
    /\ \E i \in 1..Len(db_ops) : db_ops[i] = <<"insert_atm_record", E1>>
    /\ PlainDays(E1) < 0
    /\ RowsOf(atm_db, E1) # {}

(***************************************************************************)
(* ATM symbol selection                                                    *)
(***************************************************************************)
AtmReturned == call.fn = "_filter_atm_symbols" /\ call.result # Pending

AtmSymbols == { call.result.value[k] : k \in 1..Len(call.result.value) }

\* the listed symbols of an expiry whose underlying and side are the
\* pattern's, whose expiry the pattern admits and whose strike is a number
MatchingSymbols(e) ==
    { call.all_symbols[i] : i \in
        { i \in 1..Len(call.all_symbols) :
            LET sym == call.all_symbols[i]
            IN  /\ Len(sym) = 4
                /\ sym[1] = call.pattern[1]
                /\ sym[4] = call.pattern[4]
                /\ sym[2] = e
                /\ call.pattern[2] \in {"*", e}
                /\ sym[3] \in DOMAIN FloatTable } }

StrikeOf(sym) == FloatTable[sym[3]]

\* the strike closest to spot, the lower one of two equally close
ClosestSymbol(e) ==
    CHOOSE sym \in MatchingSymbols(e) :
        \A other \in MatchingSymbols(e) :
            \/ Abs(StrikeOf(sym) - call.spot_price) < Abs(StrikeOf(other) - call.spot_price)
            \/ /\ Abs(StrikeOf(sym) - call.spot_price) = Abs(StrikeOf(other) - call.spot_price)
               /\ StrikeOf(sym) <= StrikeOf(other)

\* how many listed strikes lie between two symbols' strikes, the far end
\* counted
StrikesApart(e, a, b) ==
    Cardinality({ sym \in MatchingSymbols(e) :
                    \/ StrikeOf(a) < StrikeOf(sym) /\ StrikeOf(sym) <= StrikeOf(b)
                    \/ StrikeOf(b) <= StrikeOf(sym) /\ StrikeOf(sym) < StrikeOf(a) })

\* the docstring's "4 strikes above and 4 strikes below"
DocumentedStrikesEachSide == 4

AtmExpiries == { call.all_symbols[i][2] : i \in 1..Len(call.all_symbols) }

\* C27: ATM symbol selection.  For an ATM pattern, _filter_atm_symbols
\* selects per expiry the strike closest to spot plus the 4 strikes below and
\* the 4 strikes above it (fewer only when the strike list runs out on a
\* side), considering only symbols whose underlying and option side match
\* the pattern; it returns an empty list when the spot price is 0 or the
\* pattern does not have four fields.
C27_AtmSelection ==
    AtmReturned =>
        IF call.spot_price = 0 \/ Len(call.pattern) # 4
        THEN call.result.value = <<>>
        ELSE AtmSymbols =
                UNION { { sym \in MatchingSymbols(e) :
                            StrikesApart(e, ClosestSymbol(e), sym)
                                <= DocumentedStrikesEachSide } :
                        e \in { x \in AtmExpiries : MatchingSymbols(x) # {} } }

\* what the code selects: the closest strike and up to two on either side
AtmSelectionOfTwo ==
    AtmReturned =>
        IF call.spot_price = 0 \/ Len(call.pattern) # 4
        THEN call.result.value = <<>>
        ELSE AtmSymbols =
                UNION { { sym \in MatchingSymbols(e) :
                            StrikesApart(e, ClosestSymbol(e), sym)
                                <= StrikesEachSide } :
                        e \in { x \in AtmExpiries : MatchingSymbols(x) # {} } }

\* four strikes of one expiry are listed, the highest closest to spot, and
\* the lowest is left out
AtmThirdBelowLeftOut ==
    /\ AtmReturned
    /\ call.spot_price # 0
    /\ Len(call.pattern) = 4
    /\ Cardinality(MatchingSymbols(E1)) = 4
    /\ Len(call.result.value) = 3
    /\ <<"BTC", E1, "85000", "C">> \notin AtmSymbols

(***************************************************************************)
(* The tracker                                                             *)
(***************************************************************************)
\* C28: tracker invariant.  After any sequence of simple-mode cycles and for
\* every expiry, last_alerted_iv = 0 if and only if initial_alert_iv = 0,
\* and whenever they are non-zero initial_alert_iv <= last_alerted_iv and
\* both exceed iv_threshold.
C28_TrackerInvariant ==
    statistics_mode = "simple" =>
        \A e \in Expiries :
            /\ Last(e) = 0 <=> Initial(e) = 0
            /\ Last(e) # 0 =>
                  /\ Initial(e) <= Last(e)
                  /\ Initial(e) > iv_threshold
                  /\ Last(e) > iv_threshold

\* one expiry has risen above its first alert while the other one stands at
\* its first alert
C28_Witness ==
    /\ statistics_mode = "simple"
    /\ \E e, other \in Expiries :
          /\ Initial(e) > iv_threshold
          /\ Last(e) > Initial(e)
          /\ Last(other) > iv_threshold
          /\ Initial(other) = Last(other)

\* the highest IV among the strikes an alert lists
AlertMaxIv(alert) ==
    HighestOf({ alert.triggered_strikes[k].markIV :
                k \in 1..Len(alert.triggered_strikes) })

ResetLogged(e) == \E i \in LogAfter(e) : log'[i].event = "reset"

\* C29: escalating alerts.  For any expiry and any two consecutive
\* simple-mode alerts with no reset between them, the max_iv of the later
\* alert is at least the max_iv of the earlier alert plus
\* iv_increase_threshold; repeated cycles at an unchanged or lower (but not
\* reset-triggering) max_iv never produce a second alert.  The tracker
\* carries the earlier alert's max_iv from one check to the next: a check
\* that alerts stores the alert's max_iv, and one that does not alert either
\* keeps the stored value or resets it to 0.
C29_EscalatingAlerts ==
    [][CheckSimpleThreshold =>
        \A e \in Expiries :
            /\ \A i \in AlertsAfter(e) :
                  /\ LastAfter(e) = AlertMaxIv(alerts'[i])
                  /\ Last(e) > 0 =>
                        AlertMaxIv(alerts'[i]) >= Last(e) + iv_increase_threshold
            /\ AlertsAfter(e) = {} =>
                  \/ LastAfter(e) = Last(e)
                  \/ ResetLogged(e) /\ LastAfter(e) = 0
            /\ (Last(e) > 0 /\ QualifyingOf(e) # {} /\ MaxIvOf(e) <= Last(e)
                    /\ ~ResetHolds(e)) =>
                  AlertsAfter(e) = {}]_vars

\* a second alert at 46.9 after the first at 45.2, then a check at 46.9 again
\* that sends nothing
C29_Witness ==
    /\ statistics_mode = "simple"
    /\ Initial(E1) = 452000
    /\ Last(E1) = 469000
    /\ \E i \in LogNow(E1) : log[i].event = "no_alert" /\ log[i].max_iv = 469000
    /\ AlertsNow(E1) = {}

\* C30: delivery failure still arms the tracker.  When simple mode decides
\* to alert and the notifier fails to deliver, the tracker is updated exactly
\* as for a delivered alert (last_alerted_iv = max_iv, and initial_alert_iv =
\* max_iv on a first alert), so the same IV level is not alerted again in the
\* following checks.
C30_FailureArms ==
    [][CheckSimpleThreshold =>
        \A e \in Expiries :
            /\ \A i \in AlertsAfter(e) :
                  ~alerts'[i].delivered =>
                      /\ LastAfter(e) = MaxIvOf(e)
                      /\ InitialAfter(e) = IF Last(e) = 0 THEN MaxIvOf(e) ELSE Initial(e)
            /\ (\E i \in AlertsNow(e) : ~alerts[i].delivered) =>
                  /\ Last(e) = MaxIvOf(e)
                  /\ AlertsAfter(e) = {}
                  /\ LastAfter(e) = Last(e)
                  /\ InitialAfter(e) = Initial(e)]_vars

\* a first alert and a later one were both lost, and the tracker stands at
\* the later one
C30_Witness ==
    /\ statistics_mode = "simple"
    /\ Initial(E1) = 462000
    /\ Last(E1) = 475000
    /\ \E i \in AlertsNow(E1) : ~alerts[i].delivered /\ alerts[i].previous_iv = 462000

====
